---- MODULE Spec2Model ----
(***************************************************************************)
(* A model of scripts/generate-test-report-alpha.py: the transcript parser *)
(* (line classifier, indentation-stack suite-tree builder, noise filter),  *)
(* the counters and JSON writer, the group and category heuristics, the    *)
(* two gas-report parsers with the gas section of the rendered report, and *)
(* main's sequencing of checks and output writes.                          *)
(*                                                                         *)
(* Text is modelled character by character: a string is a sequence of      *)
(* one-character strings.  A character outside ASCII is written as the     *)
(* token "U+XXXX" of its code point and counts as one character.           *)
(***************************************************************************)
EXTENDS Integers, Sequences, FiniteSets, TLC

VARIABLES
    fileExists,     \* whether test-output.txt exists
    transcript,     \* the lines of test-output.txt
    pc,             \* position of the run
    idx,            \* parse_suite_tree: index of the next line of the loop
    nodes,          \* parse_suite_tree: the node objects, in creation order
    root,           \* parse_suite_tree: the root list (node ids)
    stack,          \* parse_suite_tree: the stack of (indent, node)
    suites,         \* the list returned by parse_suite_tree (node ids)
    total_passing,  \* main: int(m_pass.group(1))
    total_pending,  \* main: int(m_pend.group(1))
    duration,       \* main: m_pass.group(2)
    baseReport,     \* what test-report.html holds when it is read
    written,        \* the output files written so far
    out,            \* the document written by write_structure_json
    error,          \* the message of the exception that ended the run
    catIn,          \* category_for_test, group_for_path: the arguments
    catOut,         \* category_for_test, group_for_path: the result
    cf,             \* main: what parse_connectfour_gas returned
    arb,            \* main: what parse_arbitrum_gas returned
    html_out,       \* main: the gas section of what render_html returned
    group_stats,    \* render_html: passing/pending per module group
    category_stats, \* render_html: passing/pending per behavior category
    group_category_stats,   \* render_html: passing/pending per group and category
    slow_tests      \* render_html: the slowest-tests list

vars == <<fileExists, transcript, pc, idx, nodes, root, stack, suites, total_passing,
          total_pending, duration, baseReport, written, out, error, catIn, catOut,
          cf, arb, html_out, group_stats, category_stats, group_category_stats,
          slow_tests>>

None == "None"       \* None, where the values are strings
Nothing == <<>>      \* None, elsewhere: an optional value x is <<x>>
NoFile == "NoFile"

(***************************************************************************)
(* Bounds of the model.                                                    *)
(***************************************************************************)
MaxLines == 4        \* longest transcript of the parser specification
MaxMainLines == 4    \* longest transcript of the whole-run specification
MaxCount == 16       \* largest total of the success-rate specification
MaxPath == 1         \* longest suite path of the category specification
MaxGroupPath == 2    \* longest suite path of the module-group specification
MaxExampleLines == 5 \* longest transcript of the worked-example specification
MaxGasLines == 4     \* most lines ahead of the summary in the gas specification
MaxSkipLines == 3    \* most lines ahead of the summary in the skipped-lines specification
MaxMergeLines == 6   \* longest transcript of the absorption specification
MaxOrderLines == 5   \* most lines behind the first header in the test-order specification
MaxAggregateLines == 5   \* most lines ahead of the summary in the aggregation specification
MaxSlowTests == 17   \* most timed-or-untimed tests of the slowest-tests specification

(***************************************************************************)
(* Characters and strings.                                                 *)
(***************************************************************************)
Whitespace == {" ", "\t"}

Digits == {"0", "1", "2", "3", "4", "5", "6", "7", "8", "9"}

UpperCase == {"A", "B", "C", "D", "E", "F", "G", "H", "I", "J", "K", "L", "M",
              "N", "O", "P", "Q", "R", "S", "T", "U", "V", "W", "X", "Y", "Z"}

LowerCase == {"a", "b", "c", "d", "e", "f", "g", "h", "i", "j", "k", "l", "m",
              "n", "o", "p", "q", "r", "s", "t", "u", "v", "w", "x", "y", "z"}

\* str.lower() on one character
LowerChar(c) ==
    CASE c = "A" -> "a" [] c = "B" -> "b" [] c = "C" -> "c" [] c = "D" -> "d"
      [] c = "E" -> "e" [] c = "F" -> "f" [] c = "G" -> "g" [] c = "H" -> "h"
      [] c = "I" -> "i" [] c = "J" -> "j" [] c = "K" -> "k" [] c = "L" -> "l"
      [] c = "M" -> "m" [] c = "N" -> "n" [] c = "O" -> "o" [] c = "P" -> "p"
      [] c = "Q" -> "q" [] c = "R" -> "r" [] c = "S" -> "s" [] c = "T" -> "t"
      [] c = "U" -> "u" [] c = "V" -> "v" [] c = "W" -> "w" [] c = "X" -> "x"
      [] c = "Y" -> "y" [] c = "Z" -> "z" [] OTHER -> c

Lower(s) == [k \in 1..Len(s) |-> LowerChar(s[k])]

DigitVal(c) ==
    CASE c = "0" -> 0 [] c = "1" -> 1 [] c = "2" -> 2 [] c = "3" -> 3
      [] c = "4" -> 4 [] c = "5" -> 5 [] c = "6" -> 6 [] c = "7" -> 7
      [] c = "8" -> 8 [] c = "9" -> 9

RECURSIVE IntOfDigits(_)
\* int(s) for a string of decimal digits
IntOfDigits(s) ==
    IF s = <<>> THEN 0
    ELSE 10 * IntOfDigits(SubSeq(s, 1, Len(s) - 1)) + DigitVal(s[Len(s)])

DropFirst(s, n) == SubSeq(s, n + 1, Len(s))

\* number of leading characters of s that lie in the set cs
RECURSIVE Run(_, _)
Run(s, cs) ==
    IF s # <<>> /\ Head(s) \in cs THEN 1 + Run(Tail(s), cs) ELSE 0

\* number of trailing characters of s that lie in the set cs
RECURSIVE RunBack(_, _)
RunBack(s, cs) ==
    IF s # <<>> /\ s[Len(s)] \in cs
    THEN 1 + RunBack(SubSeq(s, 1, Len(s) - 1), cs) ELSE 0

LStrip(s) == DropFirst(s, Run(s, Whitespace))
RStrip(s) == SubSeq(s, 1, Len(s) - RunBack(s, Whitespace))
Strip(s) == LStrip(RStrip(s))

StartsWith(s, p) == Len(s) >= Len(p) /\ SubSeq(s, 1, Len(p)) = p
StartsWithAny(s, ps) == \E p \in ps : StartsWith(s, p)
EndsWith(s, p) == Len(s) >= Len(p) /\ SubSeq(s, Len(s) - Len(p) + 1, Len(s)) = p

\* the Python test  k in hay
Contains(hay, k) ==
    \E j \in 1..(Len(hay) - Len(k) + 1) : SubSeq(hay, j, j + Len(k) - 1) = k
ContainsAny(hay, ks) == \E k \in ks : Contains(hay, k)

RECURSIVE Join(_)
\* " ".join(path)
Join(path) ==
    IF path = <<>> THEN <<>>
    ELSE IF Len(path) = 1 THEN path[1]
    ELSE path[1] \o <<" ">> \o Join(Tail(path))

Spaces(n) == [k \in 1..n |-> " "]

(***************************************************************************)
(* The line patterns.                                                      *)
(***************************************************************************)
CheckMark == "U+2714"

\* SUMMARY_PASS_RE = ^\s*(\d+)\s+passing\s*\(([^)]+)\)\s*$
SummaryPassMatch(line) ==
    LET s == LStrip(line)
        n == Run(s, Digits)
        a == DropFirst(s, n)
        b == LStrip(a)
        c == LStrip(DropFirst(b, 7))
        e == DropFirst(c, 1)
        close == CHOOSE j \in 1..Len(e) :
                    e[j] = ")" /\ \A h \in 1..(j - 1) : e[h] # ")"
        ok == /\ n >= 1
              /\ Len(b) < Len(a)
              /\ StartsWith(b, <<"p", "a", "s", "s", "i", "n", "g">>)
              /\ StartsWith(c, <<"(">>)
              /\ \E j \in 1..Len(e) : e[j] = ")"
              /\ close >= 2
              /\ Strip(DropFirst(e, close)) = <<>>
    IN  IF ok
        THEN [ok |-> TRUE, count |-> IntOfDigits(SubSeq(s, 1, n)),
              duration |-> SubSeq(e, 1, close - 1)]
        ELSE [ok |-> FALSE, count |-> 0, duration |-> <<>>]

\* SUMMARY_PEND_RE = ^\s*(\d+)\s+pending\s*$
SummaryPendMatch(line) ==
    LET s == LStrip(line)
        n == Run(s, Digits)
        a == DropFirst(s, n)
        b == LStrip(a)
        ok == /\ n >= 1
              /\ Len(b) < Len(a)
              /\ StartsWith(b, <<"p", "e", "n", "d", "i", "n", "g">>)
              /\ Strip(DropFirst(b, 7)) = <<>>
    IN  IF ok
        THEN [ok |-> TRUE, count |-> IntOfDigits(SubSeq(s, 1, n))]
        ELSE [ok |-> FALSE, count |-> 0]

\* a match that leaves the parenthesized duration in the name
PassMatchKeepsDuration(line) ==
    LET s == LStrip(line)
        a == DropFirst(s, 1)
        ok == /\ StartsWith(s, <<CheckMark>>)
              /\ Run(a, Whitespace) >= 1
    IN  IF ok THEN [ok |-> TRUE, name |-> Strip(a), ms |-> Nothing]
        ELSE [ok |-> FALSE, name |-> <<>>, ms |-> Nothing]

\* PASS_RE = ^\s*U+2714\s+(.*?)(?:\s*\((\d+)ms\))?\s*$
\* with name = group(1).strip() and ms = int(group(2)) when group 2 took part
PassMatch(line) ==
    LET s == LStrip(line)
        a == DropFirst(s, 1)
        r == RStrip(LStrip(a))
        body == SubSeq(r, 1, Len(r) - 3)        \* r without a closing "ms)"
        d == RunBack(body, Digits)
        timed == /\ EndsWith(r, <<"m", "s", ")">>)
                 /\ d >= 1
                 /\ Len(body) > d
                 /\ body[Len(body) - d] = "("
        ok == /\ StartsWith(s, <<CheckMark>>)
              /\ Run(a, Whitespace) >= 1
    IN  IF ~ok THEN [ok |-> FALSE, name |-> <<>>, ms |-> Nothing]
        ELSE IF timed
        THEN [ok |-> TRUE,
              name |-> Strip(SubSeq(body, 1, Len(body) - d - 1)),
              ms |-> <<IntOfDigits(SubSeq(body, Len(body) - d + 1, Len(body)))>>]
        ELSE [ok |-> TRUE, name |-> Strip(r), ms |-> Nothing]

\* PEND_RE = ^\s*-\s+(.*)\s*$  with name = group(1).strip()
PendMatch(line) ==
    LET s == LStrip(line)
        a == DropFirst(s, 1)
        ok == /\ StartsWith(s, <<"-">>)
              /\ Run(a, Whitespace) >= 1
    IN  IF ok THEN [ok |-> TRUE, name |-> Strip(a)]
        ELSE [ok |-> FALSE, name |-> <<>>]

\* len(line) - len(line.lstrip(" "))
Indent(line) == Run(line, {" "})

BoxPrefixes == {<<"U+250C">>, <<"U+2502">>, <<"U+2514">>}
BannerPrefixes == {<<"#", "#">>, <<"=", "=", "=">>, <<"=", "=", "=", "=">>}

(***************************************************************************)
(* The noise filter.                                                       *)
(***************************************************************************)
DROP_SUITE_EXACT ==
    { <<"'", "c", "o", "n", "s", "t", "r", "u", "c", "t", "o", "r", "'", ",">>,
      <<"'", "s", "t", "a", "r", "t", "T", "e", "s", "t", "'", ",">>,
      <<"'", "r", "e", "c", "o", "r", "d", "T", "i", "m", "e", "l", "i", "n", "e", "E", "n", "t", "r", "y", "'", ",">>,
      <<"'", "e", "n", "d", "T", "e", "s", "t", "'", ",">>,
      <<"'", "i", "s", "T", "r", "a", "c", "k", "i", "n", "g", "'", ",">>,
      <<"'", "g", "e", "t", "T", "e", "s", "t", "D", "a", "t", "a", "'", ",">>,
      <<"'", "g", "e", "t", "A", "l", "l", "T", "e", "s", "t", "s", "'", ",">>,
      <<"'", "g", "e", "t", "C", "u", "r", "r", "e", "n", "t", "T", "e", "s", "t", "I", "d", "'", ",">>,
      <<"'", "g", "e", "t", "S", "u", "m", "m", "a", "r", "y", "'", ",">>,
      <<"'", "g", "e", "t", "T", "e", "s", "t", "s", "B", "y", "F", "i", "l", "e", "'", ",">>,
      <<"'", "g", "e", "t", "T", "e", "s", "t", "s", "B", "y", "S", "t", "a", "t", "u", "s", "'", ",">>,
      <<"'", "c", "l", "e", "a", "r", "'", ",">>,
      <<"'", "t", "o", "J", "S", "O", "N", "'", ",">>,
      <<"'", "f", "r", "o", "m", "J", "S", "O", "N", "'">> }

ReporterPrefixes ==
    { <<"S", "t", "a", "t", "e", "T", "r", "a", "c", "k", "e", "r">>,
      <<"S", "c", "i", "e", "n", "t", "i", "f", "i", "c", " ", "R", "e", "p", "o", "r", "t", "e", "r">> }

MetricPrefixes ==
    { <<"G", "a", "s", " ", "u", "s", "e", "d">>, <<"G", "a", "s", ":">>, <<"C", "o", "s", "t", ":">>, <<"B", "y", "t", "e", "s", ":">>,
      <<"K", "i", "l", "o", "b", "y", "t", "e", "s", ":">>,
      <<"M", "e", "g", "a", "b", "y", "t", "e", "s", ":">> }

DecorationPrefixes ==
    { <<"U+250C">>, <<"U+2502">>, <<"U+2514">>, <<"#", "#">>, <<"=", "=", "=">>, <<"=", "=", "=", "=">>, <<"U+2022">>, <<"*">> }

EmojiPrefixes ==
    { <<"U+2713">>, <<"U+2705">>, <<"U+1F389">>, <<"U+1F6A8">>, <<"U+1F3AE">>, <<"U+1F680">>, <<"U+1F48E">>, <<"U+1F4CA">>, <<"U+26A0">> }

\* the state labels without "Match "
StateLabelPrefixesWithoutMatch ==
    { <<"M", "o", "v", "e", " ">>, <<"P", "l", "a", "y", "e", "r">>, <<"S", "t", "a", "t", "u", "s">>,
      <<"R", "o", "u", "n", "d", " ">>, <<"T", "i", "e", "r", " ">>, <<"P", "h", "a", "s", "e", " ">> }

StateLabelPrefixes ==
    { <<"M", "a", "t", "c", "h", " ">>, <<"M", "o", "v", "e", " ">>, <<"P", "l", "a", "y", "e", "r">>, <<"S", "t", "a", "t", "u", "s">>,
      <<"R", "o", "u", "n", "d", " ">>, <<"T", "i", "e", "r", " ">>, <<"P", "h", "a", "s", "e", " ">> }

\* the character class [A-Za-z0-9_() ./-]
LabelChars == UpperCase \cup LowerCase \cup Digits \cup {"_", "(", ")", " ", ".", "/", "-"}

\* re.match(r"^[A-Za-z0-9_() ./-]+:\s*(.+)$", t) and the tests on group(1).strip()
LabelValueNoise(t) ==
    LET n == Run(t, LabelChars)
        rest == DropFirst(t, n + 1)
        rhs == Strip(rest)
    IN  /\ n >= 1
        /\ Len(t) > n
        /\ t[n + 1] = ":"
        /\ rest # <<>>
        /\ \/ StartsWithAny(rhs, {<<"0", "x">>, <<"$">>})
           \/ (rhs # <<>> /\ Head(rhs) \in Digits)

is_noise_suite_name(name) ==
    LET t == Strip(name)
    IN  \/ t = <<>>
        \/ t \in DROP_SUITE_EXACT
        \/ StartsWithAny(t, ReporterPrefixes)
        \/ StartsWithAny(t, MetricPrefixes)
        \/ StartsWithAny(t, DecorationPrefixes)
        \/ StartsWithAny(t, EmojiPrefixes)
        \/ StartsWithAny(t, StateLabelPrefixes)
        \/ LabelValueNoise(t)

(***************************************************************************)
(* The suite tree.  The node objects of parse_suite_tree live in `nodes`,  *)
(* in creation order; a node is referred to by its index, as the Python    *)
(* lists and the stack refer to the dict objects.  A test record carries   *)
(* the index of the line that created it: the identity of the dict object. *)
(***************************************************************************)
NewNode(name) == [name |-> name, subsuites |-> <<>>, tests |-> <<>>]

PassRecord(line, src) ==
    [name |-> PassMatch(line).name, status |-> "passing",
     ms |-> PassMatch(line).ms, src |-> src]

PendRecord(line, src) ==
    [name |-> PendMatch(line).name, status |-> "pending", ms |-> Nothing, src |-> src]

\* a loop body that takes a line of any indentation for a header
LineKindAnyIndent(line) ==
    LET stripped == Strip(line)
    IN  IF stripped = <<>> THEN "skip"
        ELSE IF StartsWith(stripped, <<">", " ">>) THEN "skip"
        ELSE IF SummaryPassMatch(line).ok \/ SummaryPendMatch(line).ok THEN "skip"
        ELSE IF PassMatch(line).ok THEN "pass"
        ELSE IF PendMatch(line).ok THEN "pend"
        ELSE IF StartsWithAny(stripped, BoxPrefixes) THEN "skip"
        ELSE IF StartsWithAny(stripped, BannerPrefixes) THEN "skip"
        ELSE "header"

\* what the loop body of parse_suite_tree does with a line
LineKind(line) ==
    LET stripped == Strip(line)
    IN  IF stripped = <<>> THEN "skip"
        ELSE IF StartsWith(stripped, <<">", " ">>) THEN "skip"
        ELSE IF SummaryPassMatch(line).ok \/ SummaryPendMatch(line).ok THEN "skip"
        ELSE IF PassMatch(line).ok THEN "pass"
        ELSE IF PendMatch(line).ok THEN "pend"
        ELSE IF Indent(line) < 2 THEN "skip"
        ELSE IF StartsWithAny(stripped, BoxPrefixes) THEN "skip"
        ELSE IF StartsWithAny(stripped, BannerPrefixes) THEN "skip"
        ELSE "header"

RECURSIVE PopStack(_, _), PopStackKeepsEqual(_, _)
\* a loop that leaves a suite of the line's own indentation open
PopStackKeepsEqual(st, indent) ==
    IF st # <<>> /\ indent < st[Len(st)].indent
    THEN PopStackKeepsEqual(SubSeq(st, 1, Len(st) - 1), indent)
    ELSE st

\* while stack and indent <= stack[-1][0]: stack.pop()
PopStack(st, indent) ==
    IF st # <<>> /\ indent <= st[Len(st)].indent
    THEN PopStack(SubSeq(st, 1, Len(st) - 1), indent)
    ELSE st

\* an append to the suite at the bottom of the stack
AppendTestToBottom(ns, st, rec) ==
    IF st # <<>>
    THEN [ns EXCEPT ![st[1].node].tests = Append(@, rec)]
    ELSE ns

\* stack[-1][1]["tests"].append(rec), when the stack is not empty
AppendTest(ns, st, rec) ==
    IF st # <<>>
    THEN [ns EXCEPT ![st[Len(st)].node].tests = Append(@, rec)]
    ELSE ns

\* a test on the child's name that knows the exact names only
ChildIsNoiseExactOnly(ns, child) == Strip(ns[child].name) \in DROP_SUITE_EXACT

\* the test on the child's name in merge_noise_suites
ChildIsNoise(ns, child) == is_noise_suite_name(ns[child].name)

\* the child's tests put ahead of the node's own
ExtendTestsAtFront(ns, id, child) ==
    [ns EXCEPT ![id].tests = ns[child].tests \o @]

\* node["tests"].extend(child["tests"])
ExtendTests(ns, id, child) ==
    [ns EXCEPT ![id].tests = @ \o ns[child].tests]

\* an absorption that takes the child's tests and leaves its subsuites behind
AbsorbTestsOnly(ns, id, child) ==
    ExtendTests(ns, id, child)

\* node["tests"].extend(child["tests"]); node["subsuites"].extend(child["subsuites"])
Absorb(ns, id, child) ==
    [ExtendTests(ns, id, child) EXCEPT ![id].subsuites = @ \o ns[child].subsuites]

\* a test that takes every suite to have content
HasContentAlways(ns, id) == TRUE

\* if child.get("tests") or child.get("subsuites")
HasContent(ns, id) == ns[id].tests # <<>> \/ ns[id].subsuites # <<>>

RECURSIVE merge_noise_suites(_, _), MergeLoop(_, _, _, _), MergeLoopNoContinue(_, _, _, _)

\* the loop without its `continue`: a noisy child is absorbed and then kept as well
MergeLoopNoContinue(ns, id, k, new_children) ==
    IF k > Len(ns[id].subsuites)
    THEN [ns EXCEPT ![id].subsuites = new_children]
    ELSE LET child == ns[id].subsuites[k]
             n1 == merge_noise_suites(ns, child)
             n2 == IF ChildIsNoise(n1, child) THEN Absorb(n1, id, child) ELSE n1
         IN  IF HasContent(n2, child)
             THEN MergeLoopNoContinue(n2, id, k + 1, Append(new_children, child))
             ELSE MergeLoopNoContinue(n2, id, k + 1, new_children)


\* The loop of merge_noise_suites over node["subsuites"], at position k of the
\* list; the list is the one the loop extends, so the subsuites taken over from a
\* noisy child are visited later in the same loop.
MergeLoop(ns, id, k, new_children) ==
    IF k > Len(ns[id].subsuites)
    THEN [ns EXCEPT ![id].subsuites = new_children]
    ELSE LET child == ns[id].subsuites[k]
             n1 == merge_noise_suites(ns, child)
         IN  IF ChildIsNoise(n1, child)
             THEN MergeLoop(Absorb(n1, id, child), id, k + 1, new_children)
             ELSE IF HasContent(n1, child)
             THEN MergeLoop(n1, id, k + 1, Append(new_children, child))
             ELSE MergeLoop(n1, id, k + 1, new_children)

merge_noise_suites(ns, id) == MergeLoop(ns, id, 1, <<>>)

\* the test on a root suite's name in the last loop of parse_suite_tree
RootIsNoise(ns, s) == is_noise_suite_name(ns[s].name)

RECURSIVE CleanLoop(_, _, _, _)
\* The last loop of parse_suite_tree, at position k of the root list.
CleanLoop(ns, rootList, k, cleaned) ==
    IF k > Len(rootList)
    THEN [nodes |-> ns, cleaned |-> cleaned]
    ELSE LET s == rootList[k]
             n1 == merge_noise_suites(ns, s)
         IN  IF RootIsNoise(n1, s)
             THEN CleanLoop(n1, rootList, k + 1, cleaned)
             ELSE IF HasContent(n1, s)
             THEN CleanLoop(n1, rootList, k + 1, Append(cleaned, s))
             ELSE CleanLoop(n1, rootList, k + 1, cleaned)

Clean(ns, rootList) == CleanLoop(ns, rootList, 1, <<>>)

RECURSIVE SumSeq(_)
SumSeq(s) == IF s = <<>> THEN 0 ELSE Head(s) + SumSeq(Tail(s))

CountStatus(tests, status) ==
    Len(SelectSeq(tests, LAMBDA t : t.status = status))

\* a count of the node's own tests only
count_suite_own(ns, id) ==
    <<CountStatus(ns[id].tests, "passing"), CountStatus(ns[id].tests, "pending")>>

RECURSIVE count_suite(_, _)
\* count_suite(node), as the pair (p, q)
count_suite(ns, id) ==
    LET subs == [k \in 1..Len(ns[id].subsuites) |-> count_suite(ns, ns[id].subsuites[k])]
    IN  << CountStatus(ns[id].tests, "passing")
              + SumSeq([k \in 1..Len(subs) |-> subs[k][1]]),
           CountStatus(ns[id].tests, "pending")
              + SumSeq([k \in 1..Len(subs) |-> subs[k][2]]) >>

RECURSIVE Concat(_)
Concat(ss) == IF ss = <<>> THEN <<>> ELSE Head(ss) \o Concat(Tail(ss))

RECURSIVE flatten_tests(_, _, _)
\* flatten_tests(node, path): the (path, test) pairs of the subtree
flatten_tests(ns, id, path) ==
    LET next_path == Append(path, ns[id].name)
    IN  [k \in 1..Len(ns[id].tests) |-> [path |-> next_path, test |-> ns[id].tests[k]]]
        \o Concat([k \in 1..Len(ns[id].subsuites) |->
                      flatten_tests(ns, ns[id].subsuites[k], next_path)])

\* main: flat, over the root suites
FlatTests(ns, ids) ==
    Concat([k \in 1..Len(ids) |-> flatten_tests(ns, ids[k], <<>>)])

(***************************************************************************)
(* write_structure_json.                                                   *)
(***************************************************************************)
RECURSIVE IntToStr(_)
\* the decimal digits of a natural number
IntToStr(n) ==
    LET d == <<"0", "1", "2", "3", "4", "5", "6", "7", "8", "9">>
    IN  IF n < 10 THEN <<d[n + 1]>> ELSE IntToStr(n \div 10) \o <<d[(n % 10) + 1]>>

\* the rate cut off after the first decimal instead of rounded
SuccessRateTruncated(p, total) ==
    IF total = 0 THEN 0 ELSE (1000 * p) \div total

\* (total_passing / total * 100.0) if total else 0.0, in tenths as "{:.1f}" rounds
\* it: to the nearest tenth, a tie to the even one.  The float quotient gives the
\* same tenth as this exact computation for every total below 80.
SuccessRateTenths(p, total) ==
    IF total = 0 THEN 0
    ELSE LET fl == (1000 * p) \div total
             rem == (1000 * p) % total
         IN  IF 2 * rem > total THEN fl + 1
             ELSE IF 2 * rem < total THEN fl
             ELSE IF fl % 2 = 0 THEN fl ELSE fl + 1

\* f"{x:.1f}"
FormatTenths(r) == IntToStr(r \div 10) \o <<".">> \o IntToStr(r % 10)

RECURSIVE to_node(_, _)
to_node(ns, id) ==
    [name |-> ns[id].name,
     subsuites |-> [k \in 1..Len(ns[id].subsuites) |-> to_node(ns, ns[id].subsuites[k])],
     tests |-> [k \in 1..Len(ns[id].tests) |->
                   [name |-> ns[id].tests[k].name, status |-> ns[id].tests[k].status]],
     passing |-> count_suite(ns, id)[1],
     pending |-> count_suite(ns, id)[2]]

StructureJson(ns, ids, tp, tq) ==
    [totalPassing |-> tp,
     totalPending |-> tq,
     totalTests |-> tp + tq,
     successRate |-> FormatTenths(SuccessRateTenths(tp, tp + tq)),
     suites |-> [k \in 1..Len(ids) |-> to_node(ns, ids[k])]]

(***************************************************************************)
(* The keyword heuristics.                                                 *)
(***************************************************************************)
GasKeywords == {<<"g", "a", "s">>, <<"s", "t", "o", "r", "a", "g", "e">>, <<"c", "a", "p", "a", "c", "i", "t", "y">>}

EscalationKeywords ==
    { <<"e", "s", "c", "a", "l", "a", "t", "i", "o", "n">>, <<"t", "i", "m", "e", "o", "u", "t">>,
      <<"f", "o", "r", "c", "e", " ", "s", "t", "a", "r", "t">>, <<"m", "l">>, <<"e", "l">>,
      <<"a", "b", "a", "n", "d", "o", "n", "e", "d">> }

AllDrawKeywords == {<<"a", "l", "l", "-", "d", "r", "a", "w">>, <<"a", "l", "l", " ", "d", "r", "a", "w">>}

EconomicsKeywords ==
    { <<"p", "r", "i", "z", "e">>, <<"f", "e", "e">>, <<"e", "a", "r", "n", "i", "n", "g", "s">>,
      <<"r", "a", "f", "f", "l", "e">>, <<"r", "e", "s", "e", "r", "v", "e">> }

EventKeywords == {<<"e", "v", "e", "n", "t">>, <<"t", "r", "a", "n", "s", "f", "e", "r">>, <<"r", "e", "c", "o", "r", "d">>}

ViewKeywords ==
    { <<"v", "i", "e", "w">>, <<"l", "e", "a", "d", "e", "r", "b", "o", "a", "r", "d">>,
      <<"s", "t", "a", "t", "s">>, <<"i", "n", "f", "o">> }

RegressionKeywords ==
    { <<"b", "u", "g">>, <<"r", "e", "g", "r", "e", "s", "s", "i", "o", "n">>,
      <<"e", "d", "g", "e", " ", "c", "a", "s", "e">>, <<"p", "e", "r", "s", "i", "s", "t", "e", "n", "c", "e">>,
      <<"c", "a", "c", "h", "e">> }

\* " ".join(path) + " " + test_name, lowered
Haystack(path, test_name) == Lower(Join(path) \o <<" ">> \o test_name)

\* the tests for the escalation and the draw keywords in the other order
category_for_test_draw_first(path, test_name) ==
    LET hay == Haystack(path, test_name)
    IN  IF ContainsAny(hay, GasKeywords) THEN "Gas & Performance"
        ELSE IF ContainsAny(hay, AllDrawKeywords) THEN "All-Draw Resolution"
        ELSE IF ContainsAny(hay, EscalationKeywords) THEN "Escalation & Timeouts"
        ELSE IF ContainsAny(hay, EconomicsKeywords) THEN "Economics & Prizes"
        ELSE IF ContainsAny(hay, EventKeywords) THEN "Events & Records"
        ELSE IF ContainsAny(hay, ViewKeywords) THEN "Views & Data Integrity"
        ELSE IF ContainsAny(hay, RegressionKeywords) THEN "Edge Cases & Regression"
        ELSE "Game & Tournament Logic"

category_for_test(path, test_name) ==
    LET hay == Haystack(path, test_name)
    IN  IF ContainsAny(hay, GasKeywords) THEN "Gas & Performance"
        ELSE IF ContainsAny(hay, EscalationKeywords) THEN "Escalation & Timeouts"
        ELSE IF ContainsAny(hay, AllDrawKeywords) THEN "All-Draw Resolution"
        ELSE IF ContainsAny(hay, EconomicsKeywords) THEN "Economics & Prizes"
        ELSE IF ContainsAny(hay, EventKeywords) THEN "Events & Records"
        ELSE IF ContainsAny(hay, ViewKeywords) THEN "Views & Data Integrity"
        ELSE IF ContainsAny(hay, RegressionKeywords) THEN "Edge Cases & Regression"
        ELSE "Game & Tournament Logic"


(***************************************************************************)
(* The module group of a suite path.                                       *)
(***************************************************************************)
GroupGasKeywords == {<<"g", "a", "s">>, <<"s", "t", "o", "r", "a", "g", "e">>, <<"c", "a", "p", "a", "c", "i", "t", "y">>}

\* the test for the gas keywords ahead of the tests for the game names
group_for_path_gas_first(path) ==
    LET joined == Lower(Join(path))
    IN  IF Contains(joined, <<"a", "r", "b", "i", "t", "r", "u", "m", " ", "s", "t", "o", "r", "a", "g", "e", " ", "g", "a", "s", " ", "c", "o", "s", "t", " ", "a", "n", "a", "l", "y", "s", "i", "s">>) THEN "Gas & Storage"
        ELSE IF ContainsAny(joined, GroupGasKeywords) THEN "Gas & Performance"
        ELSE IF Contains(joined, <<"c", "o", "n", "n", "e", "c", "t", "f", "o", "u", "r">>) THEN "ConnectFourOnChain"
        ELSE IF Contains(joined, <<"c", "h", "e", "s", "s">>) THEN "ChessOnChain"
        ELSE IF Contains(joined, <<"t", "i", "c", "t", "a", "c">>) THEN "TicTacChain"
        ELSE "Protocol Core"

group_for_path(path) ==
    LET joined == Lower(Join(path))
    IN  IF Contains(joined, <<"c", "o", "n", "n", "e", "c", "t", "f", "o", "u", "r">>) THEN "ConnectFourOnChain"
        ELSE IF Contains(joined, <<"c", "h", "e", "s", "s">>) THEN "ChessOnChain"
        ELSE IF Contains(joined, <<"t", "i", "c", "t", "a", "c">>) THEN "TicTacChain"
        ELSE IF Contains(joined, <<"a", "r", "b", "i", "t", "r", "u", "m", " ", "s", "t", "o", "r", "a", "g", "e", " ", "g", "a", "s", " ", "c", "o", "s", "t", " ", "a", "n", "a", "l", "y", "s", "i", "s">>) THEN "Gas & Storage"
        ELSE IF ContainsAny(joined, GroupGasKeywords) THEN "Gas & Performance"
        ELSE "Protocol Core"

(***************************************************************************)
(* The gas reports.  A mapping is a record, the empty mapping the record   *)
(* of no field; a value that may be None is Nothing or <<value>>; indices  *)
(* count from 1.                                                           *)
(***************************************************************************)
EmptyMapping == <<>>

CF_START == <<"#", "#", " ", "A", "v", "e", "r", "a", "g", "e", " ", "P", "l", "a", "y", "e", "r", " ", "C", "o", "s", "t", " ", "A", "n", "a", "l", "y", "s", "i", "s">>
CF_END == <<"E", "N", "D", " ", "O", "F", " ", "R", "E", "P", "O", "R", "T">>
ARB_START == <<"G", "A", "S", " ", "A", "N", "A", "L", "Y", "S", "I", "S", " ", "R", "E", "P", "O", "R", "T">>
ARB_SCALE == <<"S", "c", "a", "l", "i", "n", "g", " ", "P", "r", "o", "j", "e", "c", "t", "i", "o", "n", "s", ":">>

\* find_index(lines, pred, start), given what pred says of each line
find_index(hits, start) ==
    IF \E j \in start..Len(hits) : hits[j]
    THEN <<CHOOSE j \in start..Len(hits) : hits[j] /\ \A h \in start..(j - 1) : ~hits[h]>>
    ELSE Nothing

\* re.search of  prefix\s*([chars]+)  in a line: group 1, Nothing without a match
SearchValue(line, prefix, chars) ==
    LET rest(p) == LStrip(DropFirst(line, p + Len(prefix) - 1))
        ps == {p \in 1..(Len(line) - Len(prefix) + 1) :
                  /\ SubSeq(line, p, p + Len(prefix) - 1) = prefix
                  /\ Run(rest(p), chars) >= 1}
    IN  IF ps = {} THEN Nothing
        ELSE LET p == CHOOSE p \in ps : \A q \in ps : p <= q
             IN  <<SubSeq(rest(p), 1, Run(rest(p), chars))>>

\* grab(rx) of the two parsers: group 1 of the first line of the block that matches
grab(block, prefix, chars) ==
    LET at == find_index([j \in 1..Len(block) |->
                             SearchValue(block[j], prefix, chars) # Nothing], 1)
    IN  IF at = Nothing THEN Nothing ELSE SearchValue(block[at[1]], prefix, chars)

\* extract_block(lines, start_pred, end_pred), given what the predicates say
extract_block(lines, starts, ends) ==
    LET start == find_index(starts, 1)
    IN  IF start = Nothing THEN <<>>
        ELSE LET end == find_index(ends, start[1])
             IN  IF end = Nothing THEN SubSeq(lines, start[1], Len(lines))
                 ELSE SubSeq(lines, start[1], end[1] - 1)

\* re.search of  Move\s+(\d+/\d+)\s+complete\s+-\s+Gas:\s*(\d+)  from position p on
MoveMatchAt(line, p) ==
    LET a == DropFirst(line, p - 1)
        b == DropFirst(a, 4)
        c == LStrip(b)
        n1 == Run(c, Digits)
        d == DropFirst(c, n1)
        e == DropFirst(d, 1)
        n2 == Run(e, Digits)
        f == DropFirst(e, n2)
        g == LStrip(f)
        h == DropFirst(g, 8)
        i == LStrip(h)
        j == DropFirst(i, 1)
        k == LStrip(j)
        l == LStrip(DropFirst(k, 4))
        n3 == Run(l, Digits)
    IN  [ok |-> /\ StartsWith(a, <<"M", "o", "v", "e">>)
                /\ Len(c) < Len(b) /\ n1 >= 1
                /\ StartsWith(d, <<"/">>) /\ n2 >= 1
                /\ Len(g) < Len(f) /\ StartsWith(g, <<"c", "o", "m", "p", "l", "e", "t", "e">>)
                /\ Len(i) < Len(h) /\ StartsWith(i, <<"-">>)
                /\ Len(k) < Len(j) /\ StartsWith(k, <<"G", "a", "s", ":">>)
                /\ n3 >= 1,
         mv |-> SubSeq(c, 1, n1) \o <<"/">> \o SubSeq(e, 1, n2),
         g |-> SubSeq(l, 1, n3)]

\* the (move, gas) pairs of the lines of the long-game block, one per matching line
RECURSIVE LongGameMoves(_)
LongGameMoves(block) ==
    IF block = <<>> THEN <<>>
    ELSE LET line == Head(block)
             ps == {p \in 1..Len(line) : MoveMatchAt(line, p).ok}
         IN  (IF ps = {} THEN <<>>
              ELSE LET p == CHOOSE p \in ps : \A q \in ps : p <= q
                   IN  << <<MoveMatchAt(line, p).mv, MoveMatchAt(line, p).g>> >>)
             \o LongGameMoves(Tail(block))

NoOp == [count |-> Nothing, totalGas |-> Nothing, avgGas |-> Nothing]

\* a parser that goes on when the end marker is missing
parse_connectfour_gas_no_end_check(lines) ==
    LET start == find_index([j \in 1..Len(lines) |-> Strip(lines[j]) = CF_START], 1)
    IN  IF start = Nothing THEN EmptyMapping
        ELSE [avgGasPerPlayer |-> grab(SubSeq(lines, start[1], Len(lines)),
                                       <<"-", " ", "A", "v", "e", "r", "a", "g", "e", " ", "G", "a", "s", " ", "p", "e", "r", " ", "P", "l", "a", "y", "e", "r", ":">>, Digits \cup {","}),
              longGameMoves |-> <<>>,
              networkRows |-> <<>>,
              ops |-> [enrollments |-> NoOp, moves |-> NoOp]]

\* The keys whose patterns no line of the inputs matches hold None (an empty list
\* for networkRows, the record of None for the two operations of ops).
parse_connectfour_gas(lines) ==
    LET start == find_index([j \in 1..Len(lines) |-> Strip(lines[j]) = CF_START], 1)
        end == find_index([j \in 1..Len(lines) |-> Strip(lines[j]) = CF_END],
                          IF start = Nothing THEN 1 ELSE start[1])
    IN  IF start = Nothing \/ end = Nothing THEN EmptyMapping
        ELSE IF end[1] <= start[1] THEN EmptyMapping
        ELSE LET block == SubSeq(lines, start[1], end[1] - 1)
                 long_block ==
                     extract_block(lines,
                         [j \in 1..Len(lines) |-> Contains(lines[j], <<"S", "C", "E", "N", "A", "R", "I", "O", " ", "1", ":", " ", "L", "o", "n", "g", " ", "G", "a", "m", "e">>)],
                         [j \in 1..Len(lines) |-> Contains(lines[j], <<"S", "C", "E", "N", "A", "R", "I", "O", " ", "2", ":">>)])
             IN  [playersTracked |-> Nothing,
                  totalGasAll |-> Nothing,
                  avgGasPerPlayer |->
                      grab(block, <<"-", " ", "A", "v", "e", "r", "a", "g", "e", " ", "G", "a", "s", " ", "p", "e", "r", " ", "P", "l", "a", "y", "e", "r", ":">>, Digits \cup {","}),
                  avgCostEth |-> Nothing,
                  avgCostUsd |-> Nothing,
                  maxPlayer |-> Nothing,
                  maxTotalGas |-> Nothing,
                  maxTxs |-> Nothing,
                  maxCostEth |-> Nothing,
                  maxCostUsd |-> Nothing,
                  autoStartGas |-> Nothing,
                  autoStartEth |-> Nothing,
                  autoStartUsd |-> Nothing,
                  saturationPlayers |-> Nothing,
                  saturationTournaments |-> Nothing,
                  longGameMoves |-> LongGameMoves(long_block),
                  networkRows |-> <<>>,
                  ops |-> [enrollments |-> NoOp, moves |-> NoOp]]

\* re.match(r"^=+$", l.strip())
IsRule(line) ==
    LET s == Strip(line) IN s # <<>> /\ \A k \in 1..Len(s) : s[k] = "="

\* The keys whose patterns no line of the inputs matches hold None (an empty list
\* for avgRows and projections).
parse_arbitrum_gas(lines) ==
    LET start == find_index([j \in 1..Len(lines) |-> Strip(lines[j]) = ARB_START], 1)
    IN  IF start = Nothing THEN EmptyMapping
        ELSE LET scale == find_index([j \in 1..Len(lines) |-> Strip(lines[j]) = ARB_SCALE],
                                     start[1])
             IN  IF scale = Nothing THEN EmptyMapping
                 ELSE LET end == find_index([j \in 1..Len(lines) |-> IsRule(lines[j])],
                                            scale[1])
                          last == IF end # Nothing THEN end[1] - 1
                                  ELSE IF Len(lines) < scale[1] + 49 THEN Len(lines)
                                  ELSE scale[1] + 49
                          block == SubSeq(lines, start[1], last)
                      IN  [totalMatches |-> Nothing,
                           firstTotal |->
                               grab(block, <<"F", "i", "r", "s", "t", " ", "m", "a", "t", "c", "h", " ", "a", "v", "g", " ", "g", "a", "s", ":">>, Digits \cup {","}),
                           lastMatchN |-> Nothing,
                           lastTotal |-> Nothing,
                           avgRows |-> <<>>,
                           totalRecords |-> Nothing,
                           totalStorageBytes |-> Nothing,
                           totalStorageMB |-> Nothing,
                           perPlayerKB |-> Nothing,
                           projections |-> <<>>]

NA == <<"N", "/", "A">>

\* html.escape(s, quote=True), one character at a time
EscChar(c) ==
    CASE c = "&" -> <<"&", "a", "m", "p", ";">>
      [] c = "<" -> <<"&", "l", "t", ";">>
      [] c = ">" -> <<"&", "g", "t", ";">>
      [] c = "\"" -> <<"&", "q", "u", "o", "t", ";">>
      [] c = "'" -> <<"&", "#", "x", "2", "7", ";">>
      [] OTHER -> <<c>>

RECURSIVE esc(_)
esc(s) == IF s = <<>> THEN <<>> ELSE EscChar(Head(s)) \o esc(Tail(s))

\* m.get(key)
Get(m, key) == IF key \in DOMAIN m THEN m[key] ELSE Nothing

\* m.get(key) or 'N/A', for a key that holds a string or None
OrNA(m, key) ==
    LET v == Get(m, key)
    IN  IF v = Nothing THEN NA ELSE IF v[1] = <<>> THEN NA ELSE v[1]

\* str(m.get(key) or 'N/A'), for a key that holds an integer or None
OrNAInt(m, key) ==
    LET v == Get(m, key)
    IN  IF v = Nothing THEN NA ELSE IF v[1] = 0 THEN NA ELSE IntToStr(v[1])

\* render_html: the interpolated ConnectFour fields, lines 1021-1046
CfFields(m) ==
    [saturationPlayers |-> esc(OrNA(m, "saturationPlayers")),
     saturationTournaments |-> esc(OrNA(m, "saturationTournaments")),
     autoStartGas |-> esc(OrNA(m, "autoStartGas")),
     autoStartEth |-> esc(OrNA(m, "autoStartEth") \o <<" ", "E", "T", "H">>),
     autoStartUsd |-> esc(OrNA(m, "autoStartUsd")),
     avgGasPerPlayer |-> esc(OrNA(m, "avgGasPerPlayer")),
     avgCostEth |-> esc(OrNA(m, "avgCostEth") \o <<" ", "E", "T", "H">>),
     avgCostUsd |-> esc(OrNA(m, "avgCostUsd")),
     maxTotalGas |-> esc(OrNA(m, "maxTotalGas")),
     maxPlayer |-> esc(OrNA(m, "maxPlayer")),
     maxTxs |-> esc(OrNA(m, "maxTxs"))]

\* render_html: the interpolated Arbitrum fields, lines 1096-1113
ArbFields(m) ==
    [totalMatches |-> esc(OrNA(m, "totalMatches")),
     firstTotal |-> esc(OrNA(m, "firstTotal")),
     lastTotal |-> esc(OrNA(m, "lastTotal")),
     lastMatchN |-> esc(OrNAInt(m, "lastMatchN")),
     totalStorageBytes |-> esc(OrNA(m, "totalStorageBytes")),
     totalStorageMB |-> esc(OrNA(m, "totalStorageMB") \o <<" ", "M", "B">>)]

\* The table bodies: the rows that "\n".join puts together, each row the
\* escaped texts of its cells; no row is the empty string.
cf_net_rows(m) ==
    LET rows == Get(m, "networkRows")
    IN  [k \in 1..Len(rows) |->
            <<esc(rows[k].gasPrice), esc(rows[k].avgEth), esc(rows[k].avgUsd),
              esc(rows[k].maxEth), esc(rows[k].maxUsd)>>]

cf_long_rows(m) ==
    LET rows == Get(m, "longGameMoves")
    IN  [k \in 1..Len(rows) |-> <<esc(rows[k][1]), esc(rows[k][2])>>]

\* cf["ops"] holds its two entries whenever cf has the key
cf_ops_rows(m) ==
    IF "ops" \in DOMAIN m
    THEN << <<<<"E", "n", "r", "o", "l", "l", "m", "e", "n", "t", "s">>, esc(OrNA(m["ops"].enrollments, "count")),
              esc(OrNA(m["ops"].enrollments, "avgGas")),
              esc(OrNA(m["ops"].enrollments, "totalGas"))>>,
            <<<<"M", "o", "v", "e", "s">>, esc(OrNA(m["ops"].moves, "count")),
              esc(OrNA(m["ops"].moves, "avgGas")),
              esc(OrNA(m["ops"].moves, "totalGas"))>> >>
    ELSE <<>>

arb_avg_rows(m) ==
    LET rows == Get(m, "avgRows")
    IN  [k \in 1..Len(rows) |->
            <<esc(rows[k].match), esc(rows[k].enroll), esc(rows[k].m1), esc(rows[k].m2),
              esc(rows[k].m3), esc(rows[k].m4), esc(rows[k].total), esc(rows[k].delta)>>]

arb_proj_rows(m) ==
    LET rows == Get(m, "projections")
    IN  [k \in 1..Len(rows) |->
            <<esc(rows[k].players), esc(rows[k].matches), esc(rows[k].records),
              esc(rows[k].storage)>>]

\* the gas section of the document render_html returns
GasSection(cfm, arbm) ==
    [cf |-> CfFields(cfm),
     arb |-> ArbFields(arbm),
     cf_net_rows |-> cf_net_rows(cfm),
     cf_long_rows |-> cf_long_rows(cfm),
     cf_ops_rows |-> cf_ops_rows(cfm),
     arb_avg_rows |-> arb_avg_rows(arbm),
     arb_proj_rows |-> arb_proj_rows(arbm)]

(***************************************************************************)
(* render_html: the aggregation loop over the flattened tests and the      *)
(* slowest-tests list.                                                     *)
(***************************************************************************)
\* {"passing": 0, "pending": 0}
ZeroCounts == [passing |-> 0, pending |-> 0]

\* a count that is set to one where the loop adds one
AddCountAssigned(stats, key, status) ==
    LET cur == IF key \in DOMAIN stats THEN stats[key] ELSE ZeroCounts
    IN  [k \in DOMAIN stats \cup {key} |->
            IF k = key THEN [cur EXCEPT ![status] = 1] ELSE stats[k]]

\* stats.setdefault(key, {"passing": 0, "pending": 0}), then
\* stats[key][status] += 1
AddCount(stats, key, status) ==
    LET cur == IF key \in DOMAIN stats THEN stats[key] ELSE ZeroCounts
    IN  [k \in DOMAIN stats \cup {key} |->
            IF k = key THEN [cur EXCEPT ![status] = @ + 1] ELSE stats[k]]

\* stats.setdefault(group, {}).setdefault(cat, {"passing": 0, "pending": 0}),
\* then stats[group][cat][status] += 1
AddCellCount(stats, group, cat, status) ==
    LET row == IF group \in DOMAIN stats THEN stats[group] ELSE EmptyMapping
    IN  [g \in DOMAIN stats \cup {group} |->
            IF g = group THEN AddCount(row, cat, status) ELSE stats[g]]

RECURSIVE group_stats_of(_)
\* group_stats after the loop over flat_tests
group_stats_of(flat_tests) ==
    IF flat_tests = <<>> THEN EmptyMapping
    ELSE LET n == Len(flat_tests)
             t == flat_tests[n]
         IN  AddCount(group_stats_of(SubSeq(flat_tests, 1, n - 1)),
                      group_for_path(t.path), t.test.status)

RECURSIVE category_stats_of(_)
\* category_stats after the loop over flat_tests
category_stats_of(flat_tests) ==
    IF flat_tests = <<>> THEN EmptyMapping
    ELSE LET n == Len(flat_tests)
             t == flat_tests[n]
         IN  AddCount(category_stats_of(SubSeq(flat_tests, 1, n - 1)),
                      category_for_test(t.path, t.test.name), t.test.status)

RECURSIVE group_category_stats_of(_)
\* group_category_stats after the loop over flat_tests
group_category_stats_of(flat_tests) ==
    IF flat_tests = <<>> THEN EmptyMapping
    ELSE LET n == Len(flat_tests)
             t == flat_tests[n]
         IN  AddCellCount(group_category_stats_of(SubSeq(flat_tests, 1, n - 1)),
                          group_for_path(t.path),
                          category_for_test(t.path, t.test.name), t.test.status)

RECURSIVE JoinSlash(_)
\* " / ".join(parts)
JoinSlash(parts) ==
    IF parts = <<>> THEN <<>>
    ELSE IF Len(parts) = 1 THEN parts[1]
    ELSE parts[1] \o <<" ", "/", " ">> \o JoinSlash(Tail(parts))

\* " / ".join([p for p in path if p])
suite_name(path) == JoinSlash(SelectSeq(path, LAMBDA p : p # <<>>))

\* (t["name"], suite_name, int(t["ms"]))
SlowEntry(t) == [name |-> t.test.name, suite |-> suite_name(t.path), ms |-> t.test.ms[1]]

RECURSIVE TimedEntries(_)
\* slow_tests after the loop: an entry for each test whose ms is not None, in
\* the order of flat_tests
TimedEntries(flat_tests) ==
    IF flat_tests = <<>> THEN <<>>
    ELSE LET rest == TimedEntries(Tail(flat_tests))
         IN  IF Head(flat_tests).test.ms # Nothing
             THEN <<SlowEntry(Head(flat_tests))>> \o rest
             ELSE rest

\* the place of a new entry in a list sorted by -ms: after every entry whose ms
\* is not smaller (list.sort is stable)
InsertByMs(sorted, e) ==
    LET k == Cardinality({i \in 1..Len(sorted) : sorted[i].ms >= e.ms})
    IN  SubSeq(sorted, 1, k) \o <<e>> \o SubSeq(sorted, k + 1, Len(sorted))

RECURSIVE SortByMs(_)
\* slow_tests.sort(key=lambda x: -x[2])
SortByMs(entries) ==
    IF entries = <<>> THEN <<>>
    ELSE LET n == Len(entries)
         IN  InsertByMs(SortByMs(SubSeq(entries, 1, n - 1)), entries[n])

\* the length of the slice in slow_tests[:15]
SlowLimit == 15

\* the slice taken before the sort
slow_tests_cut_first(flat_tests) ==
    LET entries == TimedEntries(flat_tests)
    IN  SortByMs(SubSeq(entries, 1, IF Len(entries) < SlowLimit THEN Len(entries)
                                     ELSE SlowLimit))

\* slow_tests as render_html leaves it: sorted, then slow_tests[:15]
slow_tests_of(flat_tests) ==
    LET sorted == SortByMs(TimedEntries(flat_tests))
    IN  SubSeq(sorted, 1, IF Len(sorted) < SlowLimit THEN Len(sorted) ELSE SlowLimit)
(***************************************************************************)
(* Inputs: the lines a transcript is drawn from.                           *)
(***************************************************************************)
GameSuite == <<"G", "a", "m", "e", "S", "u", "i", "t", "e">>
MatchResults == <<"M", "a", "t", "c", "h", " ", "R", "e", "s", "u", "l", "t", "s">>

HeaderIndents == {2, 4, 6}
HeaderNames == {GameSuite, MatchResults}

PassLineText == <<" ", " ", " ", " ", "U+2714", " ", "s", "h", "o", "u", "l", "d", " ", "e", "n", "r", "o", "l", "l", " ", "p", "l", "a", "y", "e", "r", " ", "(", "4", "2", "m", "s", ")">>
PendLineText == <<" ", " ", " ", " ", "-", " ", "s", "h", "o", "u", "l", "d", " ", "h", "a", "n", "d", "l", "e", " ", "d", "r", "a", "w">>
RawLogLine == <<" ", "r", "a", "w", " ", "l", "o", "g">>

TreeLines ==
    {Spaces(n) \o name : n \in HeaderIndents, name \in HeaderNames}
        \cup {PassLineText, PendLineText, RawLogLine}

MainLines ==
    { <<" ", " ", "G", "a", "m", "e", "S", "u", "i", "t", "e">>,
      <<" ", " ", "P", "l", "a", "y", "e", "r", "1", ":", " ", "0", "x", "a", "b", "c", "1", "2", "3">>,
      PassLineText,
      PendLineText,
      <<"1", " ", "p", "a", "s", "s", "i", "n", "g", " ", "(", "1", "0", "m", "s", ")">>,
      <<"2", " ", "p", "a", "s", "s", "i", "n", "g", " ", "(", "1", "s", ")">>,
      <<"1", " ", "p", "e", "n", "d", "i", "n", "g">>,
      <<"0", " ", "p", "e", "n", "d", "i", "n", "g">> }

\* lines of the gas reports, some of them test or header lines as well
GasLines ==
    { <<" ", " ", "#", "#", " ", "A", "v", "e", "r", "a", "g", "e", " ", "P", "l", "a", "y", "e", "r", " ", "C", "o", "s", "t", " ", "A", "n", "a", "l", "y", "s", "i", "s">>,
      <<" ", " ", "E", "N", "D", " ", "O", "F", " ", "R", "E", "P", "O", "R", "T">>,
      <<" ", " ", "G", "A", "S", " ", "A", "N", "A", "L", "Y", "S", "I", "S", " ", "R", "E", "P", "O", "R", "T">>,
      <<"S", "c", "a", "l", "i", "n", "g", " ", "P", "r", "o", "j", "e", "c", "t", "i", "o", "n", "s", ":">>,
      <<"-", " ", "A", "v", "e", "r", "a", "g", "e", " ", "G", "a", "s", " ", "p", "e", "r", " ", "P", "l", "a", "y", "e", "r", ":", " ", "1", "2", "3", ",", "4", "5", "6">>,
      <<" ", " ", " ", " ", "U+2714", " ", "F", "i", "r", "s", "t", " ", "m", "a", "t", "c", "h", " ", "a", "v", "g", " ", "g", "a", "s", ":", " ", "9", "8", ",", "7", "6", "5", " ", "(", "5", "m", "s", ")">>,
      <<"S", "C", "E", "N", "A", "R", "I", "O", " ", "1", ":", " ", "L", "o", "n", "g", " ", "G", "a", "m", "e", " ", "M", "o", "v", "e", " ", "3", "/", "4", "2", " ", "c", "o", "m", "p", "l", "e", "t", "e", " ", "-", " ", "G", "a", "s", ":", " ", "1", "2", "3", "4", "5">> }

\* lines the loop of parse_suite_tree passes over, with a header and two tests
BlankLine == <<>>
PromptLine == <<" ", " ", ">", " ", "h", "a", "r", "d", "h", "a", "t", " ", "t", "e", "s", "t">>
IndentedSummaryLine == <<" ", " ", " ", " ", "1", " ", "p", "a", "s", "s", "i", "n", "g", " ", "(", "1", "0", "m", "s", ")">>
BoxLine == <<" ", " ", " ", " ", "U+250C", "U+2500", "U+2500", "U+2500", "U+2500", "U+2510">>
BannerLine == <<" ", " ", " ", " ", "=", "=", "=", " ", "R", "O", "U", "N", "D", " ", "0", " ", "S", "U", "M", "M", "A", "R", "Y", " ", "=", "=", "=">>

SkipLines ==
    { <<" ", " ", "G", "a", "m", "e", "S", "u", "i", "t", "e">>, PassLineText, PendLineText, BlankLine, PromptLine,
      IndentedSummaryLine, RawLogLine, BoxLine, BannerLine }

\* a passing test line "    (check mark) t<i>", with " (<ms>ms)" when ms is given
SlowLine(i, ms) ==
    Spaces(4) \o <<CheckMark, " ", "t">> \o IntToStr(i)
    \o (IF ms = Nothing THEN <<>> ELSE <<" ", "(">> \o IntToStr(ms[1]) \o <<"m", "s", ")">>)

\* the summary line "<n> passing (10ms)"
SlowSummary(n) == Spaces(2) \o IntToStr(n) \o <<" ", "p", "a", "s", "s", "i", "n", "g", " ", "(", "1", "0", "m", "s", ")">>

SlowDurations == {Nothing, <<1>>, <<2>>, <<3>>}

SlowLines ==
    {SlowLine(i, ms) : i \in 1..MaxSlowTests, ms \in SlowDurations}
    \cup {SlowSummary(n) : n \in 0..MaxSlowTests}

\* a root suite of the ConnectFour module, a suite that is its subsuite or a root
\* suite of its own, a timed passing test and a pending test about gas
AggregateLines ==
    { <<" ", " ", "C", "o", "n", "n", "e", "c", "t", "F", "o", "u", "r", "O", "n", "C", "h", "a", "i", "n">>,
      Spaces(4) \o GameSuite,
      PassLineText,
      <<"-", " ", "A", "v", "e", "r", "a", "g", "e", " ", "G", "a", "s", " ", "p", "e", "r", " ", "P", "l", "a", "y", "e", "r", ":", " ", "1", "2", "3", ",", "4", "5", "6">> }

\* LineKind on the lines of the inputs, evaluated once
AllLines ==
    TreeLines \cup MainLines \cup GasLines \cup SkipLines \cup SlowLines
        \cup AggregateLines
KindOfLine == [line \in AllLines |-> LineKind(line)]

Transcripts(lines, max) == UNION {[1..n -> lines] : n \in 0..max}

CountKind(lines, kind) ==
    Cardinality({j \in 1..Len(lines) : KindOfLine[lines[j]] = kind})

Words ==
    GasKeywords \cup EscalationKeywords \cup AllDrawKeywords \cup EconomicsKeywords
        \cup EventKeywords \cup ViewKeywords \cup RegressionKeywords
        \cup {<<"p", "l", "a", "y">>, <<"G", "a", "s">>, <<"T", "i", "m", "e", "o", "u", "t">>}

Paths == UNION {[1..n -> Words] : n \in 0..MaxPath}

(***************************************************************************)
(* The run of main.                                                        *)
(***************************************************************************)
MissingMsg == "Missing test-output.txt"
SummaryMsg == "Could not find Mocha summary in test-output.txt"
StyleMsg == "Could not extract <style> from test-report.html"
BaseMissingMsg == "FileNotFoundError: test-report.html"

OUT_HTML == "test-report-alpha.html"
OUT_RESULTS == "test-results.json"
OUT_STRUCTURE == "test-structure.json"

\* what last_match returns when no line matches
NoMatch == [ok |-> FALSE, count |-> 0, duration |-> <<>>]

\* a search that returns the first match
first_match(matches) ==
    IF \E j \in 1..Len(matches) : matches[j].ok
    THEN matches[CHOOSE j \in 1..Len(matches) :
                    /\ matches[j].ok
                    /\ \A h \in 1..(j - 1) : ~matches[h].ok]
    ELSE NoMatch

\* last_match(lines, rx), given the matches of rx on the lines
last_match(matches) ==
    IF \E j \in 1..Len(matches) : matches[j].ok
    THEN matches[CHOOSE j \in 1..Len(matches) :
                    /\ matches[j].ok
                    /\ \A h \in (j + 1)..Len(matches) : ~matches[h].ok]
    ELSE NoMatch

\* a check that aborts only when both summary lines are missing
SummaryMissingBoth(m_pass, m_pend) == ~m_pass.ok /\ ~m_pend.ok

\* if not m_pass or not m_pend
SummaryMissing(m_pass, m_pend) == ~m_pass.ok \/ ~m_pend.ok

Init ==
    /\ fileExists \in BOOLEAN
    /\ transcript \in (IF fileExists THEN Transcripts(MainLines, MaxMainLines) ELSE {<<>>})
    /\ pc = "start"
    /\ idx = 0
    /\ nodes = <<>>
    /\ root = <<>>
    /\ stack = <<>>
    /\ suites = <<>>
    /\ total_passing = Nothing
    /\ total_pending = Nothing
    /\ duration = Nothing
    /\ baseReport = None
    /\ written = {}
    /\ out = Nothing
    /\ error = None
    /\ catIn = Nothing
    /\ catOut = None
    /\ cf = Nothing
    /\ arb = Nothing
    /\ html_out = Nothing
    /\ group_stats = Nothing
    /\ category_stats = Nothing
    /\ group_category_stats = Nothing
    /\ slow_tests = Nothing

\* main: if not TEST_OUTPUT.exists(): raise SystemExit(...)
CheckExists ==
    /\ pc = "start"
    /\ IF ~fileExists
       THEN pc' = "aborted" /\ error' = MissingMsg
       ELSE pc' = "summary" /\ error' = error
    /\ UNCHANGED <<fileExists, transcript, idx, nodes, root, stack, suites,
                   total_passing, total_pending, duration, baseReport, written, out,
                   catIn, catOut, cf, arb, html_out, group_stats, category_stats,
                   group_category_stats, slow_tests>>

\* main: the two last_match calls, the check on them and the totals
ReadSummary ==
    /\ pc = "summary"
    /\ LET m_pass == last_match([j \in 1..Len(transcript) |-> SummaryPassMatch(transcript[j])])
           m_pend == last_match([j \in 1..Len(transcript) |-> SummaryPendMatch(transcript[j])])
       IN  IF SummaryMissing(m_pass, m_pend)
           THEN /\ pc' = "aborted"
                /\ error' = SummaryMsg
                /\ UNCHANGED <<idx, total_passing, total_pending, duration>>
           ELSE /\ pc' = "parse"
                /\ total_passing' = m_pass.count
                /\ duration' = m_pass.duration
                /\ total_pending' = m_pend.count
                /\ idx' = 1
                /\ error' = error
    /\ UNCHANGED <<fileExists, transcript, nodes, root, stack, suites, baseReport,
                   written, out, catIn, catOut, cf, arb, html_out, group_stats,
                   category_stats, group_category_stats, slow_tests>>

AtLine == pc = "parse" /\ idx <= Len(transcript)

\* parse_suite_tree: a line the loop passes over
SkipLine ==
    /\ AtLine
    /\ KindOfLine[transcript[idx]] = "skip"
    /\ idx' = idx + 1
    /\ UNCHANGED <<fileExists, transcript, pc, nodes, root, stack, suites,
                   total_passing, total_pending, duration, baseReport, written, out,
                   error, catIn, catOut, cf, arb, html_out, group_stats, category_stats,
                   group_category_stats, slow_tests>>

\* parse_suite_tree: a passing-test line
PassLine ==
    /\ AtLine
    /\ KindOfLine[transcript[idx]] = "pass"
    /\ nodes' = AppendTest(nodes, stack, PassRecord(transcript[idx], idx))
    /\ idx' = idx + 1
    /\ UNCHANGED <<fileExists, transcript, pc, root, stack, suites, total_passing,
                   total_pending, duration, baseReport, written, out, error, catIn,
                   catOut, cf, arb, html_out, group_stats, category_stats,
                   group_category_stats, slow_tests>>

\* parse_suite_tree: a pending-test line
PendingLine ==
    /\ AtLine
    /\ KindOfLine[transcript[idx]] = "pend"
    /\ nodes' = AppendTest(nodes, stack, PendRecord(transcript[idx], idx))
    /\ idx' = idx + 1
    /\ UNCHANGED <<fileExists, transcript, pc, root, stack, suites, total_passing,
                   total_pending, duration, baseReport, written, out, error, catIn,
                   catOut, cf, arb, html_out, group_stats, category_stats,
                   group_category_stats, slow_tests>>

\* parse_suite_tree: a suite-header line
HeaderLine ==
    /\ AtLine
    /\ KindOfLine[transcript[idx]] = "header"
    /\ LET line == transcript[idx]
           indent == Indent(line)
           id == Len(nodes) + 1
           popped == PopStack(stack, indent)
           created == Append(nodes, NewNode(Strip(line)))
       IN  /\ IF popped # <<>>
              THEN /\ nodes' = [created EXCEPT
                                   ![popped[Len(popped)].node].subsuites = Append(@, id)]
                   /\ root' = root
              ELSE /\ nodes' = created
                   /\ root' = Append(root, id)
           /\ stack' = Append(popped, [indent |-> indent, node |-> id])
    /\ idx' = idx + 1
    /\ UNCHANGED <<fileExists, transcript, pc, suites, total_passing, total_pending,
                   duration, baseReport, written, out, error, catIn, catOut, cf, arb,
                   html_out, group_stats, category_stats, group_category_stats,
                   slow_tests>>

\* parse_suite_tree: the last loop, and the return to main
CleanRoots ==
    /\ pc = "parse"
    /\ idx > Len(transcript)
    /\ LET r == Clean(nodes, root)
       IN  nodes' = r.nodes /\ suites' = r.cleaned
    /\ pc' = "json"
    /\ UNCHANGED <<fileExists, transcript, idx, root, stack, total_passing,
                   total_pending, duration, baseReport, written, out, error, catIn,
                   catOut, cf, arb, html_out, group_stats, category_stats,
                   group_category_stats, slow_tests>>

WriteStructureJson ==
    /\ pc = "json"
    /\ out' = <<StructureJson(nodes, suites, total_passing, total_pending)>>
    /\ written' = written \cup {OUT_RESULTS, OUT_STRUCTURE}
    /\ pc' = "gas"
    /\ UNCHANGED <<fileExists, transcript, idx, nodes, root, stack, suites,
                   total_passing, total_pending, duration, baseReport, error, catIn,
                   catOut, cf, arb, html_out, group_stats, category_stats,
                   group_category_stats, slow_tests>>

\* main: cf = parse_connectfour_gas(lines); arb = parse_arbitrum_gas(lines)
ParseGas ==
    /\ pc = "gas"
    /\ cf' = <<parse_connectfour_gas(transcript)>>
    /\ arb' = <<parse_arbitrum_gas(transcript)>>
    /\ pc' = "render"
    /\ UNCHANGED <<fileExists, transcript, idx, nodes, root, stack, suites,
                   total_passing, total_pending, duration, baseReport, written, out,
                   error, catIn, catOut, html_out, group_stats, category_stats,
                   group_category_stats, slow_tests>>

\* render_html, which starts with extract_css_from_base
RenderHtml ==
    /\ pc = "render"
    /\ \E base \in {NoFile, "no style block", "style block"} :
          /\ baseReport' = base
          /\ IF base = "style block"
             THEN pc' = "write_html" /\ error' = error
             ELSE /\ pc' = "aborted"
                  /\ error' = IF base = NoFile THEN BaseMissingMsg ELSE StyleMsg
          /\ html_out' = IF base = "style block" THEN <<GasSection(cf[1], arb[1])>>
                         ELSE html_out
          /\ LET flat_tests == FlatTests(nodes, suites)
             IN  IF base = "style block"
                 THEN /\ group_stats' = <<group_stats_of(flat_tests)>>
                      /\ category_stats' = <<category_stats_of(flat_tests)>>
                      /\ group_category_stats' = <<group_category_stats_of(flat_tests)>>
                      /\ slow_tests' = <<slow_tests_of(flat_tests)>>
                 ELSE UNCHANGED <<group_stats, category_stats, group_category_stats,
                                  slow_tests>>
    /\ UNCHANGED <<fileExists, transcript, idx, nodes, root, stack, suites,
                   total_passing, total_pending, duration, written, out, catIn, catOut,
                   cf, arb>>

\* main: OUT_HTML.write_text(html_out)
WriteHtml ==
    /\ pc = "write_html"
    /\ written' = written \cup {OUT_HTML}
    /\ pc' = "done"
    /\ UNCHANGED <<fileExists, transcript, idx, nodes, root, stack, suites,
                   total_passing, total_pending, duration, baseReport, out, error,
                   catIn, catOut, cf, arb, html_out, group_stats, category_stats,
                   group_category_stats, slow_tests>>

Next ==
    \/ CheckExists
    \/ ReadSummary
    \/ SkipLine
    \/ PassLine
    \/ PendingLine
    \/ HeaderLine
    \/ CleanRoots
    \/ WriteStructureJson
    \/ ParseGas
    \/ RenderHtml
    \/ WriteHtml

Spec == Init /\ [][Next]_vars

(***************************************************************************)
(* parse_suite_tree and write_structure_json applied to a transcript, with *)
(* the totals a summary of exactly its test lines gives.                   *)
(***************************************************************************)
InitTree ==
    /\ fileExists = TRUE
    /\ transcript \in Transcripts(TreeLines, MaxLines)
    /\ pc = "parse"
    /\ idx = 1
    /\ nodes = <<>>
    /\ root = <<>>
    /\ stack = <<>>
    /\ suites = <<>>
    /\ total_passing = CountKind(transcript, "pass")
    /\ total_pending = CountKind(transcript, "pend")
    /\ duration = Nothing
    /\ baseReport = None
    /\ written = {}
    /\ out = Nothing
    /\ error = None
    /\ catIn = Nothing
    /\ catOut = None
    /\ cf = Nothing
    /\ arb = Nothing
    /\ html_out = Nothing
    /\ group_stats = Nothing
    /\ category_stats = Nothing
    /\ group_category_stats = Nothing
    /\ slow_tests = Nothing

NextTree ==
    \/ SkipLine
    \/ PassLine
    \/ PendingLine
    \/ HeaderLine
    \/ CleanRoots
    \/ WriteStructureJson

SpecTree == InitTree /\ [][NextTree]_vars

(***************************************************************************)
(* write_structure_json applied to totals, with no suites.                 *)
(***************************************************************************)
InitRate ==
    /\ fileExists = TRUE
    /\ transcript = <<>>
    /\ pc = "json"
    /\ idx = 1
    /\ nodes = <<>>
    /\ root = <<>>
    /\ stack = <<>>
    /\ suites = <<>>
    /\ total_passing \in 0..MaxCount
    /\ total_pending \in 0..MaxCount
    /\ duration = Nothing
    /\ baseReport = None
    /\ written = {}
    /\ out = Nothing
    /\ error = None
    /\ catIn = Nothing
    /\ catOut = None
    /\ cf = Nothing
    /\ arb = Nothing
    /\ html_out = Nothing
    /\ group_stats = Nothing
    /\ category_stats = Nothing
    /\ group_category_stats = Nothing
    /\ slow_tests = Nothing

NextRate == WriteStructureJson

SpecRate == InitRate /\ [][NextRate]_vars

(***************************************************************************)
(* category_for_test applied to a suite path and a test name.              *)
(***************************************************************************)
InitCategory ==
    /\ fileExists = TRUE
    /\ transcript = <<>>
    /\ pc = "category"
    /\ idx = 0
    /\ nodes = <<>>
    /\ root = <<>>
    /\ stack = <<>>
    /\ suites = <<>>
    /\ total_passing = Nothing
    /\ total_pending = Nothing
    /\ duration = Nothing
    /\ baseReport = None
    /\ written = {}
    /\ out = Nothing
    /\ error = None
    /\ catIn \in [path : Paths, test_name : Words]
    /\ catOut = None
    /\ cf = Nothing
    /\ arb = Nothing
    /\ html_out = Nothing
    /\ group_stats = Nothing
    /\ category_stats = Nothing
    /\ group_category_stats = Nothing
    /\ slow_tests = Nothing

Categorize ==
    /\ pc = "category"
    /\ catOut' = category_for_test(catIn.path, catIn.test_name)
    /\ pc' = "done"
    /\ UNCHANGED <<fileExists, transcript, idx, nodes, root, stack, suites,
                   total_passing, total_pending, duration, baseReport, written, out,
                   error, catIn, cf, arb, html_out, group_stats, category_stats,
                   group_category_stats, slow_tests>>

NextCategory == Categorize

SpecCategory == InitCategory /\ [][NextCategory]_vars


(***************************************************************************)
(* group_for_path applied to a suite path.                                 *)
(***************************************************************************)
GroupWords ==
    { <<"C", "o", "n", "n", "e", "c", "t", "F", "o", "u", "r">>, <<"C", "h", "e", "s", "s", " ", "G", "a", "s">>, <<"T", "i", "c", "T", "a", "c">>, <<"g", "a", "s">>, <<"S", "t", "o", "r", "a", "g", "e">>,
      <<"c", "a", "p", "a", "c", "i", "t", "y">>, <<"A", "r", "b", "i", "t", "r", "u", "m", " ", "S", "t", "o", "r", "a", "g", "e">>, <<"G", "a", "s", " ", "C", "o", "s", "t", " ", "A", "n", "a", "l", "y", "s", "i", "s">>, <<"p", "l", "a", "y">>,
      <<"A", "r", "b", "i", "t", "r", "u", "m", " ", "S", "t", "o", "r", "a", "g", "e", " ", "G", "a", "s", " ", "C", "o", "s", "t", " ", "A", "n", "a", "l", "y", "s", "i", "s">> }

GroupPaths == UNION {[1..n -> GroupWords] : n \in 0..MaxGroupPath}

InitGroup ==
    /\ fileExists = TRUE
    /\ transcript = <<>>
    /\ pc = "group"
    /\ idx = 0
    /\ nodes = <<>>
    /\ root = <<>>
    /\ stack = <<>>
    /\ suites = <<>>
    /\ total_passing = Nothing
    /\ total_pending = Nothing
    /\ duration = Nothing
    /\ baseReport = None
    /\ written = {}
    /\ out = Nothing
    /\ error = None
    /\ catIn \in [path : GroupPaths]
    /\ catOut = None
    /\ cf = Nothing
    /\ arb = Nothing
    /\ html_out = Nothing
    /\ group_stats = Nothing
    /\ category_stats = Nothing
    /\ group_category_stats = Nothing
    /\ slow_tests = Nothing

GroupPath ==
    /\ pc = "group"
    /\ catOut' = group_for_path(catIn.path)
    /\ pc' = "done"
    /\ UNCHANGED <<fileExists, transcript, idx, nodes, root, stack, suites,
                   total_passing, total_pending, duration, baseReport, written, out,
                   error, catIn, cf, arb, html_out, group_stats, category_stats,
                   group_category_stats, slow_tests>>

NextGroup == GroupPath

SpecGroup == InitGroup /\ [][NextGroup]_vars

(***************************************************************************)
(* The run of main on transcripts drawn from the five lines of the worked  *)
(* example of the specification.                                           *)
(***************************************************************************)
ExampleTranscript ==
    << <<" ", " ", "G", "a", "m", "e", "S", "u", "i", "t", "e">>,
       PassLineText,
       PendLineText,
       <<"1", " ", "p", "a", "s", "s", "i", "n", "g", " ", "(", "1", "0", "m", "s", ")">>,
       <<"1", " ", "p", "e", "n", "d", "i", "n", "g">> >>

ExampleLines == {ExampleTranscript[j] : j \in 1..Len(ExampleTranscript)}

InitExample ==
    /\ fileExists = TRUE
    /\ transcript \in Transcripts(ExampleLines, MaxExampleLines)
    /\ pc = "start"
    /\ idx = 0
    /\ nodes = <<>>
    /\ root = <<>>
    /\ stack = <<>>
    /\ suites = <<>>
    /\ total_passing = Nothing
    /\ total_pending = Nothing
    /\ duration = Nothing
    /\ baseReport = None
    /\ written = {}
    /\ out = Nothing
    /\ error = None
    /\ catIn = Nothing
    /\ catOut = None
    /\ cf = Nothing
    /\ arb = Nothing
    /\ html_out = Nothing
    /\ group_stats = Nothing
    /\ category_stats = Nothing
    /\ group_category_stats = Nothing
    /\ slow_tests = Nothing

SpecExample == InitExample /\ [][Next]_vars

(***************************************************************************)
(* The run of main on transcripts of gas-report lines that end with the    *)
(* two summary lines.                                                      *)
(***************************************************************************)
SummaryTail == << <<"1", " ", "p", "a", "s", "s", "i", "n", "g", " ", "(", "1", "0", "m", "s", ")">>, <<"1", " ", "p", "e", "n", "d", "i", "n", "g">> >>

InitGas ==
    /\ fileExists = TRUE
    /\ transcript \in {g \o SummaryTail : g \in Transcripts(GasLines, MaxGasLines)}
    /\ pc = "start"
    /\ idx = 0
    /\ nodes = <<>>
    /\ root = <<>>
    /\ stack = <<>>
    /\ suites = <<>>
    /\ total_passing = Nothing
    /\ total_pending = Nothing
    /\ duration = Nothing
    /\ baseReport = None
    /\ written = {}
    /\ out = Nothing
    /\ error = None
    /\ catIn = Nothing
    /\ catOut = None
    /\ cf = Nothing
    /\ arb = Nothing
    /\ html_out = Nothing
    /\ group_stats = Nothing
    /\ category_stats = Nothing
    /\ group_category_stats = Nothing
    /\ slow_tests = Nothing

SpecGas == InitGas /\ [][Next]_vars

(***************************************************************************)
(* The run of main on transcripts of lines that parse_suite_tree passes    *)
(* over, mixed with a header and two tests, that end with the two summary  *)
(* lines.                                                                  *)
(***************************************************************************)
InitLines ==
    /\ fileExists = TRUE
    /\ transcript \in {g \o SummaryTail : g \in Transcripts(SkipLines, MaxSkipLines)}
    /\ pc = "start"
    /\ idx = 0
    /\ nodes = <<>>
    /\ root = <<>>
    /\ stack = <<>>
    /\ suites = <<>>
    /\ total_passing = Nothing
    /\ total_pending = Nothing
    /\ duration = Nothing
    /\ baseReport = None
    /\ written = {}
    /\ out = Nothing
    /\ error = None
    /\ catIn = Nothing
    /\ catOut = None
    /\ cf = Nothing
    /\ arb = Nothing
    /\ html_out = Nothing
    /\ group_stats = Nothing
    /\ category_stats = Nothing
    /\ group_category_stats = Nothing
    /\ slow_tests = Nothing

SpecLines == InitLines /\ [][Next]_vars

(***************************************************************************)
(* parse_suite_tree applied to longer transcripts of three headers, one of *)
(* them noise, and a test.                                                 *)
(***************************************************************************)
MergeLines ==
    { Spaces(2) \o GameSuite, Spaces(4) \o MatchResults, Spaces(6) \o GameSuite,
      PassLineText }

InitMerge ==
    /\ fileExists = TRUE
    /\ transcript \in Transcripts(MergeLines, MaxMergeLines)
    /\ pc = "parse"
    /\ idx = 1
    /\ nodes = <<>>
    /\ root = <<>>
    /\ stack = <<>>
    /\ suites = <<>>
    /\ total_passing = CountKind(transcript, "pass")
    /\ total_pending = CountKind(transcript, "pend")
    /\ duration = Nothing
    /\ baseReport = None
    /\ written = {}
    /\ out = Nothing
    /\ error = None
    /\ catIn = Nothing
    /\ catOut = None
    /\ cf = Nothing
    /\ arb = Nothing
    /\ html_out = Nothing
    /\ group_stats = Nothing
    /\ category_stats = Nothing
    /\ group_category_stats = Nothing
    /\ slow_tests = Nothing

NextMerge ==
    \/ PassLine
    \/ HeaderLine
    \/ CleanRoots

SpecMerge == InitMerge /\ [][NextMerge]_vars

(***************************************************************************)
(* The run of main on transcripts of one suite with many passing tests:    *)
(* every test lasts 2ms, but for one without a duration and one that lasts *)
(* 1ms or 3ms; a pending test and the two summary lines end the transcript.*)
(***************************************************************************)
SlowTranscript(n, untimed, other, ms) ==
    <<Spaces(2) \o GameSuite>>
    \o [i \in 1..n |-> SlowLine(i, IF i = untimed THEN Nothing
                                    ELSE IF i = other THEN <<ms>> ELSE <<2>>)]
    \o <<PendLineText, SlowSummary(n), <<"1", " ", "p", "e", "n", "d", "i", "n", "g">>>>

InitSlow ==
    /\ fileExists = TRUE
    /\ transcript \in {SlowTranscript(n, untimed, other, ms) :
                           n \in (SlowLimit - 1)..MaxSlowTests,
                           untimed \in 0..MaxSlowTests, other \in 0..MaxSlowTests,
                           ms \in {1, 3}}
    /\ pc = "start"
    /\ idx = 0
    /\ nodes = <<>>
    /\ root = <<>>
    /\ stack = <<>>
    /\ suites = <<>>
    /\ total_passing = Nothing
    /\ total_pending = Nothing
    /\ duration = Nothing
    /\ baseReport = None
    /\ written = {}
    /\ out = Nothing
    /\ error = None
    /\ catIn = Nothing
    /\ catOut = None
    /\ cf = Nothing
    /\ arb = Nothing
    /\ html_out = Nothing
    /\ group_stats = Nothing
    /\ category_stats = Nothing
    /\ group_category_stats = Nothing
    /\ slow_tests = Nothing

SpecSlow == InitSlow /\ [][Next]_vars

(***************************************************************************)
(* parse_suite_tree applied to transcripts of one root suite with a test   *)
(* of its own, followed by noisy headers at two depths, a plain header and *)
(* tests.                                                                  *)
(***************************************************************************)
OrderLines ==
    { Spaces(4) \o MatchResults, Spaces(6) \o MatchResults, Spaces(6) \o GameSuite,
      PassLineText }

InitOrder ==
    /\ fileExists = TRUE
    /\ transcript \in {<<Spaces(2) \o GameSuite>> \o t :
                           t \in Transcripts(OrderLines, MaxOrderLines)}
    /\ pc = "parse"
    /\ idx = 1
    /\ nodes = <<>>
    /\ root = <<>>
    /\ stack = <<>>
    /\ suites = <<>>
    /\ total_passing = CountKind(transcript, "pass")
    /\ total_pending = CountKind(transcript, "pend")
    /\ duration = Nothing
    /\ baseReport = None
    /\ written = {}
    /\ out = Nothing
    /\ error = None
    /\ catIn = Nothing
    /\ catOut = None
    /\ cf = Nothing
    /\ arb = Nothing
    /\ html_out = Nothing
    /\ group_stats = Nothing
    /\ category_stats = Nothing
    /\ group_category_stats = Nothing
    /\ slow_tests = Nothing

SpecOrder == InitOrder /\ [][NextMerge]_vars

(***************************************************************************)
(* The run of main on transcripts of suites of two module groups with      *)
(* tests of two behavior categories, that end with the two summary lines.  *)
(***************************************************************************)
InitAggregate ==
    /\ fileExists = TRUE
    /\ transcript \in {t \o SummaryTail : t \in Transcripts(AggregateLines, MaxAggregateLines)}
    /\ pc = "start"
    /\ idx = 0
    /\ nodes = <<>>
    /\ root = <<>>
    /\ stack = <<>>
    /\ suites = <<>>
    /\ total_passing = Nothing
    /\ total_pending = Nothing
    /\ duration = Nothing
    /\ baseReport = None
    /\ written = {}
    /\ out = Nothing
    /\ error = None
    /\ catIn = Nothing
    /\ catOut = None
    /\ cf = Nothing
    /\ arb = Nothing
    /\ html_out = Nothing
    /\ group_stats = Nothing
    /\ category_stats = Nothing
    /\ group_category_stats = Nothing
    /\ slow_tests = Nothing

SpecAggregate == InitAggregate /\ [][Next]_vars
(***************************************************************************)
(* Views of the tree used to state the properties.                         *)
(***************************************************************************)
RECURSIVE TreeOf(_, _)
\* the suite `id` as a value: its name, its tests, its subsuites as values
TreeOf(ns, id) ==
    [name |-> ns[id].name,
     tests |-> ns[id].tests,
     subsuites |-> [k \in 1..Len(ns[id].subsuites) |-> TreeOf(ns, ns[id].subsuites[k])]]

Forest(ns, ids) == [k \in 1..Len(ids) |-> TreeOf(ns, ids[k])]

RECURSIVE Reach(_, _)
\* the nodes of the subtree of `id`
Reach(ns, id) ==
    {id} \cup UNION {Reach(ns, ns[id].subsuites[k]) : k \in 1..Len(ns[id].subsuites)}

TreeNodes(ns, ids) == UNION {Reach(ns, ids[k]) : k \in 1..Len(ids)}

Returned == pc \in {"json", "gas", "render", "write_html", "done"} \/ (pc = "aborted" /\ out # Nothing)

IsTestLine(j) == KindOfLine[transcript[j]] \in {"pass", "pend"}
IsHeaderLine(j) == KindOfLine[transcript[j]] = "header"

\* a suite was open when line j was read: a header line came before it
SuiteOpenAt(j) == \E h \in 1..(j - 1) : IsHeaderLine(h)

\* how often the record made from line j occurs in the returned tree
Occurrences(j) ==
    LET flat == FlatTests(nodes, suites)
    IN  Cardinality({k \in 1..Len(flat) : flat[k].test.src = j})

(***************************************************************************)
(* C1.  Every line read as a passing or pending test while a suite is open *)
(* yields a record that occurs exactly once in the tree parse_suite_tree   *)
(* returns.  (The claim is made for every test line; it already fails for  *)
(* the ones read under an open suite.)                                     *)
(***************************************************************************)
C1_EveryTestExactlyOnce ==
    Returned =>
        \A j \in 1..Len(transcript) :
            (IsTestLine(j) /\ SuiteOpenAt(j)) => Occurrences(j) = 1

(***************************************************************************)
(* C2.  For a transcript with both summary lines whose counts are the      *)
(* numbers of its passing and pending test lines, each read under an open  *)
(* suite, the sum of count_suite over the returned root suites is          *)
(* (totalPassing, totalPending) as written to the JSON.  (The claim is     *)
(* made for every transcript with both summary lines; it already fails for *)
(* these.)                                                                 *)
(***************************************************************************)
TreeTotals ==
    << SumSeq([k \in 1..Len(suites) |-> count_suite(nodes, suites[k])[1]]),
       SumSeq([k \in 1..Len(suites) |-> count_suite(nodes, suites[k])[2]]) >>

JsonSuiteTotals ==
    << SumSeq([k \in 1..Len(out[1].suites) |-> out[1].suites[k].passing]),
       SumSeq([k \in 1..Len(out[1].suites) |-> out[1].suites[k].pending]) >>

SummaryCountsTestLines ==
    /\ total_passing = CountKind(transcript, "pass")
    /\ total_pending = CountKind(transcript, "pend")
    /\ \A j \in 1..Len(transcript) : IsTestLine(j) => SuiteOpenAt(j)

C2_TreeTotalsAgreeWithSummary ==
    (out # Nothing /\ SummaryCountsTestLines) =>
        /\ TreeTotals = <<total_passing, total_pending>>
        /\ JsonSuiteTotals = <<out[1].totalPassing, out[1].totalPending>>

(***************************************************************************)
(* C3.  No suite node of the returned tree, at any depth, has a name that  *)
(* is_noise_suite_name accepts.                                            *)
(***************************************************************************)
C3_NoNoiseNameInTree ==
    Returned =>
        \A id \in TreeNodes(nodes, suites) : ~is_noise_suite_name(nodes[id].name)

\* a noisy suite inside a noisy suite inside a kept root, whose test the root took over
C3_Witness ==
    /\ Returned
    /\ Len(stack) = 3
    /\ suites = <<stack[1].node>>
    /\ is_noise_suite_name(nodes[stack[2].node].name)
    /\ is_noise_suite_name(nodes[stack[3].node].name)
    /\ \E k \in 1..Len(nodes[stack[1].node].tests) :
          /\ nodes[stack[1].node].tests[k].src = Len(transcript)
          /\ IsHeaderLine(Len(transcript) - 1)

(***************************************************************************)
(* C4.  As claimed: a header line "Match Results" is not noise and, with   *)
(* indentation >= 2 and followed by a test line, is a suite node of the    *)
(* returned tree.                                                          *)
(***************************************************************************)
IsMatchResultsWithTest(j) ==
    /\ j < Len(transcript)
    /\ IsHeaderLine(j)
    /\ Strip(transcript[j]) = MatchResults
    /\ Indent(transcript[j]) >= 2
    /\ IsTestLine(j + 1)

C4_MatchResultsSurvives ==
    Returned =>
        \A j \in 1..Len(transcript) :
            IsMatchResultsWithTest(j) =>
                /\ ~is_noise_suite_name(Strip(transcript[j]))
                /\ \E id \in TreeNodes(nodes, suites) : nodes[id].name = MatchResults

(***************************************************************************)
(* C4, amended.  "Match Results" is noise (it starts with "Match "), and   *)
(* no suite node of the returned tree is named "Match Results", also when  *)
(* the header has indentation >= 2 and is followed by a test line; the     *)
(* record of that test line is then in no suite of that name: if it is in  *)
(* the tree, it is once, in a suite that is not noise.                     *)
(***************************************************************************)
C4_MatchResultsIsNoise ==
    Returned =>
        /\ \A id \in TreeNodes(nodes, suites) : nodes[id].name # MatchResults
        /\ \A j \in 1..Len(transcript) :
              IsMatchResultsWithTest(j) =>
                  /\ is_noise_suite_name(Strip(transcript[j]))
                  /\ Occurrences(j + 1) <= 1
                  /\ \A id \in TreeNodes(nodes, suites) :
                        (\E k \in 1..Len(nodes[id].tests) : nodes[id].tests[k].src = j + 1)
                            => ~is_noise_suite_name(nodes[id].name)

\* a "Match Results" header under GameSuite, its test taken over by GameSuite
C4_Witness ==
    /\ Returned
    /\ \E j \in 1..Len(transcript) :
          /\ IsMatchResultsWithTest(j)
          /\ Occurrences(j + 1) = 1
          /\ \E id \in TreeNodes(nodes, suites) :
                /\ nodes[id].name = GameSuite
                /\ \E k \in 1..Len(nodes[id].tests) : nodes[id].tests[k].src = j + 1

(***************************************************************************)
(* C5.  When the base report has no <style> block, the run aborts with    *)
(* none of the three output files written.                                 *)
(***************************************************************************)
C5_StyleAbortWritesNothing ==
    (pc = "aborted" /\ error = StyleMsg) => written = {}

(***************************************************************************)
(* C6.  When the transcript lacks a line matching the passing summary or   *)
(* lacks a line matching the pending summary, main aborts on the summary   *)
(* check with no tree built and no output file written; when it has both,  *)
(* the summary check does not abort.                                       *)
(***************************************************************************)
HasPassSummary == \E j \in 1..Len(transcript) : SummaryPassMatch(transcript[j]).ok
HasPendSummary == \E j \in 1..Len(transcript) : SummaryPendMatch(transcript[j]).ok

C6_SummaryCheck ==
    (fileExists /\ pc \notin {"start", "summary"}) =>
        IF HasPassSummary /\ HasPendSummary
        THEN error # SummaryMsg
        ELSE /\ pc = "aborted"
             /\ error = SummaryMsg
             /\ idx = 0 /\ nodes = <<>> /\ root = <<>> /\ suites = <<>>
             /\ written = {}
             /\ out = Nothing

\* aborted with only one of the two summary lines present
C6_Witness ==
    /\ pc = "aborted"
    /\ error = SummaryMsg
    /\ HasPassSummary
    /\ ~HasPendSummary
    /\ \E j \in 1..Len(transcript) : IsTestLine(j)

(***************************************************************************)
(* C7.  Noise filtering is idempotent: merge_noise_suites on every root of *)
(* the returned tree, with the root-level noise and emptiness filter,      *)
(* gives the same tree again: same nodes, same tests, same order.          *)
(***************************************************************************)
C7_FilterIdempotent ==
    Returned =>
        LET again == Clean(nodes, suites)
        IN  Forest(again.nodes, again.cleaned) = Forest(nodes, suites)

\* a returned tree that the first filtering changed: a noisy suite with a test was
\* absorbed by a suite that is in the tree
C7_Witness ==
    /\ Returned
    /\ suites # <<>>
    /\ \E id \in 1..Len(nodes) :
          /\ id \notin TreeNodes(nodes, suites)
          /\ is_noise_suite_name(nodes[id].name)
          /\ nodes[id].tests # <<>>
          /\ \E kept \in TreeNodes(nodes, suites) :
                \E k \in 1..Len(nodes[kept].tests) :
                    nodes[kept].tests[k] = nodes[id].tests[1]

(***************************************************************************)
(* C8.  In the document written by write_structure_json, every suite       *)
(* node's passing (pending) value is the number of its own passing         *)
(* (pending) tests plus the passing (pending) values of its subsuites;     *)
(* passing + pending is the number of test records of its subtree; and the *)
(* top-level totalTests is totalPassing + totalPending.                    *)
(***************************************************************************)
RECURSIVE JsonTestCount(_)
JsonTestCount(n) ==
    Len(n.tests) + SumSeq([k \in 1..Len(n.subsuites) |-> JsonTestCount(n.subsuites[k])])

RECURSIVE JsonCountsAddUp(_)
JsonCountsAddUp(n) ==
    /\ n.passing = CountStatus(n.tests, "passing")
                      + SumSeq([k \in 1..Len(n.subsuites) |-> n.subsuites[k].passing])
    /\ n.pending = CountStatus(n.tests, "pending")
                      + SumSeq([k \in 1..Len(n.subsuites) |-> n.subsuites[k].pending])
    /\ n.passing + n.pending = JsonTestCount(n)
    /\ \A k \in 1..Len(n.subsuites) : JsonCountsAddUp(n.subsuites[k])

C8_JsonCountsAddUp ==
    out # Nothing =>
        /\ \A k \in 1..Len(out[1].suites) : JsonCountsAddUp(out[1].suites[k])
        /\ out[1].totalTests = out[1].totalPassing + out[1].totalPending

\* a written suite with a passing test of its own and a subsuite with a pending test
C8_Witness ==
    /\ out # Nothing
    /\ \E k \in 1..Len(out[1].suites) :
          /\ out[1].suites[k].subsuites # <<>>
          /\ out[1].suites[k].subsuites[1].pending >= 1
          /\ CountStatus(out[1].suites[k].tests, "passing") >= 1
          /\ out[1].suites[k].passing + out[1].suites[k].pending = 2
          /\ out[1].totalTests = 2

(***************************************************************************)
(* C9.  The successRate written by write_structure_json is "0.0" when      *)
(* totalPassing + totalPending = 0, and otherwise a number with one        *)
(* decimal that is within half a tenth of 100 * totalPassing / total; it   *)
(* lies between 0.0 and 100.0.                                             *)
(***************************************************************************)
\* the written text d...d.d read back, in tenths
TenthsOf(s) ==
    10 * IntOfDigits(SubSeq(s, 1, Len(s) - 2)) + IntOfDigits(<<s[Len(s)]>>)

WellFormedRate(s) ==
    /\ Len(s) >= 3
    /\ s[Len(s) - 1] = "."
    /\ s[Len(s)] \in Digits
    /\ \A k \in 1..(Len(s) - 2) : s[k] \in Digits

C9_SuccessRate ==
    out # Nothing =>
        LET total == out[1].totalPassing + out[1].totalPending
            r == TenthsOf(out[1].successRate)
            d == r * total - 1000 * out[1].totalPassing
        IN  /\ WellFormedRate(out[1].successRate)
            /\ total = 0 => out[1].successRate = <<"0", ".", "0">>
            /\ total > 0 => (2 * d <= total /\ -2 * d <= total)
            /\ 0 <= r /\ r <= 1000

\* a rate that had to be rounded up: 2 of 3 is 66.666..., written "66.7"
C9_Witness ==
    /\ out # Nothing
    /\ out[1].totalPassing = 2
    /\ out[1].totalPending = 1
    /\ out[1].successRate = <<"6", "6", ".", "7">>

(***************************************************************************)
(* C10.  As claimed: the first test of category_for_test is the one for    *)
(* the escalation/timeout keywords, so a test whose suite path and name    *)
(* contain such a keyword is categorized "Escalation & Timeouts" whatever  *)
(* other keywords they contain.                                            *)
(***************************************************************************)
CatHay == Haystack(catIn.path, catIn.test_name)

C10_EscalationAlwaysWins ==
    pc = "done" =>
        (ContainsAny(CatHay, EscalationKeywords) => catOut = "Escalation & Timeouts")

(***************************************************************************)
(* C10, amended.  category_for_test is first-match-wins over the fixed     *)
(* order gas/storage/capacity keywords ("Gas & Performance"), then         *)
(* escalation/timeout, draw-resolution, economics, event/record, view/data *)
(* and regression keywords, and otherwise "Game & Tournament Logic": a     *)
(* test with an escalation/timeout keyword is "Escalation & Timeouts"      *)
(* unless it also has a gas/storage/capacity keyword.                      *)
(***************************************************************************)
Priority ==
    << "Gas & Performance", "Escalation & Timeouts", "All-Draw Resolution",
       "Economics & Prizes", "Events & Records", "Views & Data Integrity",
       "Edge Cases & Regression" >>

KeywordsOf(category) ==
    CASE category = "Gas & Performance" -> GasKeywords
      [] category = "Escalation & Timeouts" -> EscalationKeywords
      [] category = "All-Draw Resolution" -> AllDrawKeywords
      [] category = "Economics & Prizes" -> EconomicsKeywords
      [] category = "Events & Records" -> EventKeywords
      [] category = "Views & Data Integrity" -> ViewKeywords
      [] category = "Edge Cases & Regression" -> RegressionKeywords

C10_FirstMatchWins ==
    pc = "done" =>
        LET hits == {k \in 1..Len(Priority) : ContainsAny(CatHay, KeywordsOf(Priority[k]))}
        IN  /\ hits = {} => catOut = "Game & Tournament Logic"
            /\ hits # {} =>
                  /\ catOut \in {Priority[k] : k \in hits}
                  /\ \A k \in hits : catOut = Priority[k] => \A h \in hits : k <= h

\* an escalation keyword together with keywords of later categories
C10_Witness ==
    /\ pc = "done"
    /\ catOut = "Escalation & Timeouts"
    /\ ContainsAny(CatHay, EscalationKeywords)
    /\ ContainsAny(CatHay, RegressionKeywords)


(***************************************************************************)
(* Views of the module-group specification.                                *)
(***************************************************************************)
\* some element of the path holds the keyword, in any letter case
PathHas(path, k) == \E i \in 1..Len(path) : Contains(Lower(path[i]), k)

GameGroups ==
    { <<<<"c", "o", "n", "n", "e", "c", "t", "f", "o", "u", "r">>, "ConnectFourOnChain">>,
      <<<<"c", "h", "e", "s", "s">>, "ChessOnChain">>,
      <<<<"t", "i", "c", "t", "a", "c">>, "TicTacChain">> }

HasGameKeyword(path) == \E g \in GameGroups : PathHas(path, g[1])

HasGasKeyword(path) == \E k \in GroupGasKeywords : PathHas(path, k)

\* C11: a path holding a game-name keyword gets the group of a game it names,
\* whatever gas/storage/capacity keywords it also holds; a path with no
\* game-name keyword and a gas/storage/capacity keyword gets one of the two
\* gas groups; every other path gets "Protocol Core".
C11_GameKeywordsFirst ==
    (pc = "done") =>
        LET path == catIn.path
        IN  /\ HasGameKeyword(path) =>
                \E g \in GameGroups : PathHas(path, g[1]) /\ catOut = g[2]
            /\ (~HasGameKeyword(path) /\ HasGasKeyword(path)) =>
                catOut \in {"Gas & Storage", "Gas & Performance"}
            /\ (~HasGameKeyword(path) /\ ~HasGasKeyword(path)) =>
                catOut = "Protocol Core"

\* a path naming a game and a gas keyword was assigned the game's group
C11_Witness ==
    /\ pc = "done"
    /\ PathHas(catIn.path, <<"c", "h", "e", "s", "s">>)
    /\ PathHas(catIn.path, <<"g", "a", "s">>)
    /\ ~PathHas(catIn.path, <<"c", "o", "n", "n", "e", "c", "t", "f", "o", "u", "r">>)
    /\ catOut = "ChessOnChain"

(***************************************************************************)
(* Views of the worked example.                                            *)
(***************************************************************************)
\* the fields of a test record the report shows
Shown(t) == [name |-> t.name, status |-> t.status, ms |-> t.ms]

ExampleTests ==
    << [name |-> <<"s", "h", "o", "u", "l", "d", " ", "e", "n", "r", "o", "l", "l", " ", "p", "l", "a", "y", "e", "r">>, status |-> "passing", ms |-> <<42>>],
       [name |-> <<"s", "h", "o", "u", "l", "d", " ", "h", "a", "n", "d", "l", "e", " ", "d", "r", "a", "w">>, status |-> "pending", ms |-> Nothing] >>

\* C12: on the five lines of the worked example the run yields one root suite
\* GameSuite without subsuites whose tests are, in this order, the passing test
\* "should enroll player" of 42 ms and the pending test "should handle draw" of
\* no duration, with totalPassing 1, totalPending 1 and successRate "50.0".
C12_WorkedExample ==
    (transcript = ExampleTranscript /\ out # Nothing) =>
        /\ Len(suites) = 1
        /\ nodes[suites[1]].name = GameSuite
        /\ nodes[suites[1]].subsuites = <<>>
        /\ [k \in 1..Len(nodes[suites[1]].tests) |-> Shown(nodes[suites[1]].tests[k])]
               = ExampleTests
        /\ out[1].totalPassing = 1
        /\ out[1].totalPending = 1
        /\ out[1].totalTests = 2
        /\ out[1].successRate = <<"5", "0", ".", "0">>
        /\ out[1].suites =
               << [name |-> GameSuite,
                   subsuites |-> <<>>,
                   tests |-> << [name |-> <<"s", "h", "o", "u", "l", "d", " ", "e", "n", "r", "o", "l", "l", " ", "p", "l", "a", "y", "e", "r">>, status |-> "passing"],
                                [name |-> <<"s", "h", "o", "u", "l", "d", " ", "h", "a", "n", "d", "l", "e", " ", "d", "r", "a", "w">>, status |-> "pending"] >>,
                   passing |-> 1,
                   pending |-> 1] >>

\* the run on the worked example ended with all three files written
C12_Witness ==
    /\ transcript = ExampleTranscript
    /\ pc = "done"
    /\ written = {OUT_HTML, OUT_RESULTS, OUT_STRUCTURE}
    /\ out[1].successRate = <<"5", "0", ".", "0">>

(***************************************************************************)
(* Views of the gas specification.                                         *)
(***************************************************************************)
HasLine(text) == \E j \in 1..Len(transcript) : Strip(transcript[j]) = text

\* a marker that parse_connectfour_gas needs is not in the transcript
CfMarkerAbsent == ~HasLine(CF_START) \/ ~HasLine(CF_END)

\* a marker that parse_arbitrum_gas needs is not in the transcript
ArbMarkerAbsent == ~HasLine(ARB_START) \/ ~HasLine(ARB_SCALE)

\* the unit the template appends to the value of a field before escaping it
UnitOf(key) ==
    IF key \in {"autoStartEth", "avgCostEth"} THEN <<" ", "E", "T", "H">>
    ELSE IF key = "totalStorageMB" THEN <<" ", "M", "B">>
    ELSE <<>>

\* C13: when a marker of a gas report is absent from the transcript its parser
\* returns the empty mapping, render_html completes whenever the style block is
\* there, every gas/cost field of that report reads "N/A" (ahead of its unit
\* where it has one) and every table body of that report is empty; a run that
\* ends after the gas reports were parsed ends for the style block only.
C13_AbsentMarkersRenderNA ==
    /\ (cf # Nothing /\ CfMarkerAbsent) => DOMAIN cf[1] = {}
    /\ (arb # Nothing /\ ArbMarkerAbsent) => DOMAIN arb[1] = {}
    /\ (pc \in {"write_html", "done"}) => (html_out # Nothing /\ error = None)
    /\ (pc = "aborted" /\ cf # Nothing) => error \in {BaseMissingMsg, StyleMsg}
    /\ (html_out # Nothing /\ CfMarkerAbsent) =>
           /\ \A key \in DOMAIN html_out[1].cf : html_out[1].cf[key] = NA \o UnitOf(key)
           /\ html_out[1].cf_net_rows = <<>>
           /\ html_out[1].cf_long_rows = <<>>
           /\ html_out[1].cf_ops_rows = <<>>
    /\ (html_out # Nothing /\ ArbMarkerAbsent) =>
           /\ \A key \in DOMAIN html_out[1].arb : html_out[1].arb[key] = NA \o UnitOf(key)
           /\ html_out[1].arb_avg_rows = <<>>
           /\ html_out[1].arb_proj_rows = <<>>

\* a run ended with the report written, on a transcript that holds gas figures
\* and a start marker of each report but neither report's closing marker
C13_Witness ==
    /\ pc = "done"
    /\ HasLine(CF_START) /\ ~HasLine(CF_END)
    /\ HasLine(ARB_START) /\ ~HasLine(ARB_SCALE)
    /\ \E j \in 1..Len(transcript) :
           SearchValue(transcript[j], <<"-", " ", "A", "v", "e", "r", "a", "g", "e", " ", "G", "a", "s", " ", "p", "e", "r", " ", "P", "l", "a", "y", "e", "r", ":">>, Digits \cup {","}) # Nothing
    /\ html_out[1].cf.avgGasPerPlayer = NA
    /\ html_out[1].arb.firstTotal = NA

(***************************************************************************)
(* Views of the raw tree, while the line loop of parse_suite_tree runs.    *)
(***************************************************************************)
\* the header lines read so far, and the line that created node n
HeadersRead == {j \in 1..(idx - 1) : IsHeaderLine(j)}

LineOfNode(n) ==
    CHOOSE j \in HeadersRead : Cardinality({h \in HeadersRead : h <= j}) = n

NodeOfLine(j) == Cardinality({h \in HeadersRead : h <= j})

\* the header lines ahead of line j that are indented less than line j
Shallower(j) ==
    {h \in HeadersRead : h < j /\ Indent(transcript[h]) < Indent(transcript[j])}

Latest(S) == CHOOSE h \in S : \A g \in S : g <= h

Increasing(seq) == \A k \in 1..(Len(seq) - 1) : seq[k] < seq[k + 1]

Elements(seq) == {seq[k] : k \in 1..Len(seq)}

\* C15: after every line of the loop the indentations on the stack increase
\* strictly from bottom to top; the node of a header line is a subsuite of the
\* node of the latest earlier header line indented strictly less, and of no
\* other node, or is in the root list when there is no such line; the root list
\* and every subsuites list are in creation order, so a node was the last of its
\* list when attached; no subsuite is indented as its parent or less.
C15_RawTreeShape ==
    (pc = "parse") =>
        /\ \A k \in 1..(Len(stack) - 1) : stack[k].indent < stack[k + 1].indent
        /\ Len(nodes) = Cardinality(HeadersRead)
        /\ Increasing(root)
        /\ \A n \in 1..Len(nodes) :
              /\ Increasing(nodes[n].subsuites)
              /\ \A m \in Elements(nodes[n].subsuites) :
                    Indent(transcript[LineOfNode(m)]) > Indent(transcript[LineOfNode(n)])
              /\ LET S == Shallower(LineOfNode(n))
                 IN  IF S = {}
                     THEN /\ n \in Elements(root)
                          /\ \A p \in 1..Len(nodes) : n \notin Elements(nodes[p].subsuites)
                     ELSE /\ n \notin Elements(root)
                          /\ \A p \in 1..Len(nodes) :
                                (n \in Elements(nodes[p].subsuites)) <=> (p = NodeOfLine(Latest(S)))

\* a header line indented as an open suite became that suite's sibling, under
\* the suite above both
C15_Witness ==
    /\ pc = "parse"
    /\ Len(stack) = 2
    /\ \E n \in 1..Len(nodes) :
          /\ Len(nodes[n].subsuites) = 2
          /\ Indent(transcript[LineOfNode(nodes[n].subsuites[1])])
                 = Indent(transcript[LineOfNode(nodes[n].subsuites[2])])

(***************************************************************************)
(* Views of one step of the line loop.                                     *)
(***************************************************************************)
\* the loop is at a line the patterns of the test lines match
AtTestLine == AtLine /\ IsTestLine(idx)

\* the fields of the record parse_suite_tree makes from the test line j
RecordOfLine(j) ==
    IF KindOfLine[transcript[j]] = "pass"
    THEN [name |-> PassMatch(transcript[j]).name, status |-> "passing",
          ms |-> PassMatch(transcript[j]).ms]
    ELSE [name |-> PendMatch(transcript[j]).name, status |-> "pending", ms |-> Nothing]

\* C16: the step on a passing or pending test line leaves the stack and the root
\* list as they are; with no suite node created yet it leaves the tree as it is;
\* otherwise it appends the line's record to the tests of the most recently
\* created node, which is the node on top of the stack, whatever the line's
\* own indentation, and changes no other node.
C16_TestGoesToTopOfStack ==
    [][AtTestLine =>
          /\ stack' = stack
          /\ root' = root
          /\ IF nodes = <<>>
             THEN nodes' = nodes /\ stack = <<>>
             ELSE LET top == Len(nodes)
                  IN  /\ stack # <<>>
                      /\ stack[Len(stack)].node = top
                      /\ Len(nodes') = Len(nodes)
                      /\ \A n \in 1..Len(nodes) :
                            /\ nodes'[n].name = nodes[n].name
                            /\ nodes'[n].subsuites = nodes[n].subsuites
                            /\ n # top => nodes'[n].tests = nodes[n].tests
                      /\ Len(nodes'[top].tests) = Len(nodes[top].tests) + 1
                      /\ SubSeq(nodes'[top].tests, 1, Len(nodes[top].tests)) = nodes[top].tests
                      /\ Shown(nodes'[top].tests[Len(nodes'[top].tests)]) = RecordOfLine(idx)]_vars

\* a test line indented less than the suite on top of a stack of two was read
\* and its record is the last test of that suite
C16_Witness ==
    /\ pc = "parse"
    /\ idx > 1
    /\ IsTestLine(idx - 1)
    /\ Len(stack) = 2
    /\ Indent(transcript[idx - 1]) < stack[2].indent
    /\ nodes[stack[2].node].tests # <<>>
    /\ nodes[stack[2].node].tests[Len(nodes[stack[2].node].tests)].src = idx - 1

\* the lines the claim names as skipped
NamedAsSkipped(line) ==
    LET stripped == Strip(line)
    IN  \/ stripped = <<>>
        \/ StartsWith(stripped, <<">", " ">>)
        \/ SummaryPassMatch(line).ok
        \/ SummaryPendMatch(line).ok
        \/ /\ ~PassMatch(line).ok
           /\ ~PendMatch(line).ok
           /\ \/ Indent(line) < 2
              \/ StartsWithAny(stripped, BoxPrefixes \cup BannerPrefixes)

\* C17: the step of the loop on a blank line, a line whose stripped text begins
\* with "> ", a line a summary pattern matches, or a line that is no test line
\* and is indented less than 2 or begins, stripped, with a box-drawing or banner
\* prefix, leaves the stack, the root list and every node as they are: no suite
\* node is created and no open suite is closed.
C17_SkippedLinesChangeNothing ==
    [][(AtLine /\ NamedAsSkipped(transcript[idx])) =>
          /\ stack' = stack
          /\ nodes' = nodes
          /\ root' = root
          /\ idx' = idx + 1]_vars

\* a line indented less than 2 was passed over while a suite was open
C17_Witness ==
    /\ pc = "parse"
    /\ idx > 1
    /\ idx <= Len(transcript)
    /\ transcript[idx - 1] = RawLogLine
    /\ stack # <<>>
    /\ nodes # <<>>

(***************************************************************************)
(* Views of the step that cleans the raw tree.                             *)
(***************************************************************************)
\* the positions of x in a list
PositionsOf(seq, x) == {k \in 1..Len(seq) : seq[k] = x}

\* the step runs merge_noise_suites on the raw tree
CleaningStep == pc = "parse" /\ pc' = "json"

\* C18: for every node P of the raw tree and every subsuite N of P whose name is
\* noise, after the cleaning N is not among P's subsuites, P's tests begin with
\* the tests P had before, every test of the cleaned N is among P's tests behind
\* them, and every subsuite the cleaned N holds is a subsuite of P behind every
\* subsuite P had before and kept.
C18_NoisyChildAbsorbed ==
    [][CleaningStep =>
          \A P \in 1..Len(nodes) : \A N \in Elements(nodes[P].subsuites) :
              is_noise_suite_name(nodes[N].name) =>
                  /\ N \notin Elements(nodes'[P].subsuites)
                  /\ Len(nodes'[P].tests) >= Len(nodes[P].tests)
                  /\ SubSeq(nodes'[P].tests, 1, Len(nodes[P].tests)) = nodes[P].tests
                  /\ \A t \in Elements(nodes'[N].tests) :
                        \E k \in PositionsOf(nodes'[P].tests, t) : k > Len(nodes[P].tests)
                  /\ \A G \in Elements(nodes'[N].subsuites) :
                        /\ PositionsOf(nodes'[P].subsuites, G) # {}
                        /\ \A b \in PositionsOf(nodes'[P].subsuites, G) :
                              \A a \in 1..Len(nodes'[P].subsuites) :
                                  nodes'[P].subsuites[a] \in Elements(nodes[P].subsuites)
                                      => a < b]_vars

\* a cleaned suite holds a subsuite of its own ahead of one taken over from a
\* noisy subsuite, and a test of its own ahead of one taken over from it
C18_Witness ==
    /\ pc = "json"
    /\ \E P \in 1..Len(nodes) : \E N \in 1..Len(nodes) :
          /\ N # P
          /\ is_noise_suite_name(nodes[N].name)
          /\ Len(nodes[P].subsuites) = 2
          /\ nodes[P].subsuites[1] \notin Elements(nodes[N].subsuites)
          /\ nodes[P].subsuites[2] \in Elements(nodes[N].subsuites)
          /\ P \in Elements(suites)

(***************************************************************************)
(* Views of the returned tree.                                             *)
(***************************************************************************)
IsEmptySuite(id) == nodes[id].tests = <<>> /\ nodes[id].subsuites = <<>>

\* C19: every suite node of the tree parse_suite_tree returns has a test or a
\* subsuite of its own, and so at least one test record in its subtree; a suite
\* left with neither is not in the tree.
C19_NoEmptySuiteReturned ==
    Returned =>
        /\ \A id \in TreeNodes(nodes, suites) :
              /\ nodes[id].tests # <<>> \/ nodes[id].subsuites # <<>>
              /\ count_suite(nodes, id)[1] + count_suite(nodes, id)[2] >= 1
        /\ \A id \in 1..Len(nodes) : IsEmptySuite(id) => id \notin TreeNodes(nodes, suites)

\* a tree was returned that lacks a subsuite whose name is not noise and that
\* was left without tests and subsuites
C19_Witness ==
    /\ Returned
    /\ suites # <<>>
    /\ \E id \in 1..Len(nodes) :
          /\ IsEmptySuite(id)
          /\ ~is_noise_suite_name(nodes[id].name)
          /\ id \notin Elements(root)
          /\ id \notin TreeNodes(nodes, suites)

(***************************************************************************)
(* Views of the run totals.                                                *)
(***************************************************************************)
\* main has taken the totals from the summary lines
TotalsTaken == fileExists /\ pc \notin {"start", "summary"} /\ error \notin {MissingMsg, SummaryMsg}

IsPassSummary(j) == SummaryPassMatch(transcript[j]).ok
IsPendSummary(j) == SummaryPendMatch(transcript[j]).ok

\* C20: the passing total and the duration are those of the last line the
\* passing-summary pattern matches, the pending total that of the last line the
\* pending-summary pattern matches, wherever the two lines stand to each other
\* and whatever the matching lines ahead of them say.
C20_TotalsFromLastSummaryLines ==
    TotalsTaken =>
        /\ \E j \in 1..Len(transcript) :
              /\ IsPassSummary(j)
              /\ \A h \in (j + 1)..Len(transcript) : ~IsPassSummary(h)
              /\ total_passing = SummaryPassMatch(transcript[j]).count
              /\ duration = SummaryPassMatch(transcript[j]).duration
        /\ \E j \in 1..Len(transcript) :
              /\ IsPendSummary(j)
              /\ \A h \in (j + 1)..Len(transcript) : ~IsPendSummary(h)
              /\ total_pending = SummaryPendMatch(transcript[j]).count

\* a run ended on a transcript whose last passing summary stands behind its last
\* pending summary and behind a passing summary of another count and duration
C20_Witness ==
    /\ pc = "done"
    /\ \E a \in 1..Len(transcript) : \E b \in 1..Len(transcript) : \E c \in 1..Len(transcript) :
          /\ a < c /\ b < c
          /\ IsPassSummary(a) /\ IsPendSummary(b) /\ IsPassSummary(c)
          /\ SummaryPassMatch(transcript[a]).count # SummaryPassMatch(transcript[c]).count
          /\ SummaryPassMatch(transcript[a]).duration # SummaryPassMatch(transcript[c]).duration
          /\ \A h \in (c + 1)..Len(transcript) : ~IsPassSummary(h)
          /\ total_passing = SummaryPassMatch(transcript[c]).count
          /\ duration = SummaryPassMatch(transcript[c]).duration

(***************************************************************************)
(* Views of the state after render_html, and the claims C21 to C23.        *)
(***************************************************************************)
\* the flattened tests that have a recorded duration, in flattened order
TimedFlat == SelectSeq(FlatTests(nodes, suites), LAMBDA t : t.test.ms # Nothing)

\* the positions in a list of timed tests of the tests that an entry of the
\* slowest-tests list can stand for
PlacesOf(timed, e) ==
    {j \in 1..Len(timed) :
        /\ timed[j].test.name = e.name
        /\ timed[j].test.ms = <<e.ms>>
        /\ suite_name(timed[j].path) = e.suite}

PlaceOf(timed, e) == CHOOSE j \in PlacesOf(timed, e) : TRUE

\* C21: once render_html has built the slowest-tests list, every entry of it
\* is a flattened test that has a duration (exactly one, the names of the
\* tests being distinct), the list has at most 15 entries, the durations never
\* increase along it, of two neighbours with the same duration the one that
\* is earlier in the flattened tree comes first, and no timed test that is
\* not in the list lasts longer than one that is.
C21_SlowestTests ==
    slow_tests # Nothing =>
        LET list == slow_tests[1]
            timed == TimedFlat
            place == [k \in 1..Len(list) |-> PlacesOf(timed, list[k])]
            listed == UNION {place[k] : k \in 1..Len(list)}
        IN  /\ \A k \in 1..Len(list) : Cardinality(place[k]) = 1
            /\ Len(list) <= 15
            /\ \A k \in 1..(Len(list) - 1) :
                  /\ list[k].ms >= list[k + 1].ms
                  /\ list[k].ms = list[k + 1].ms
                        => PlaceOf(timed, list[k]) < PlaceOf(timed, list[k + 1])
            /\ \A j \in (1..Len(timed)) \ listed :
                  \A k \in 1..Len(list) : timed[j].test.ms[1] <= list[k].ms

\* the list is full, a timed test was left out of it, its first entry is the
\* last timed test of the flattened tree, and entries of the same duration
\* follow
C21_Witness ==
    /\ slow_tests # Nothing
    /\ Len(slow_tests[1]) = 15
    /\ Len(TimedFlat) > 15
    /\ PlacesOf(TimedFlat, slow_tests[1][1]) = {Len(TimedFlat)}
    /\ slow_tests[1][2].ms = slow_tests[1][3].ms
    /\ Len(FlatTests(nodes, suites)) > Len(TimedFlat) + 1

\* the transcript lines of the tests of a node, in the order of its tests list
LinesOfTests(id) == [k \in 1..Len(nodes[id].tests) |-> nodes[id].tests[k].src]

\* C22: in every suite of the returned tree the tests stand in the order of their
\* transcript lines, whether they are the suite's own or were taken over from
\* noisy subsuites, nested ones included.
C22_TestsInTranscriptOrder ==
    Returned => \A id \in TreeNodes(nodes, suites) : Increasing(LinesOfTests(id))

\* a returned suite holds a test of its own, then one of a noisy subsuite, then
\* one of a noisy subsuite of that subsuite
C22_Witness ==
    /\ Returned
    /\ \E id \in TreeNodes(nodes, suites) :
          /\ LinesOfTests(id) = <<2, 4, 6>>
          /\ KindOfLine[transcript[3]] = "header"
          /\ KindOfLine[transcript[5]] = "header"
          /\ is_noise_suite_name(Strip(transcript[3]))
          /\ is_noise_suite_name(Strip(transcript[5]))
          /\ Indent(transcript[3]) < Indent(transcript[5])

RECURSIVE SumCounts(_, _, _)
\* the sum of the counts of a status over the given keys of a mapping
SumCounts(stats, keys, status) ==
    IF keys = {} THEN 0
    ELSE LET key == CHOOSE k \in keys : TRUE
         IN  stats[key][status] + SumCounts(stats, keys \ {key}, status)

RECURSIVE SumCells(_, _, _)
\* the sum of the counts of a status over the cells of the given groups
SumCells(stats, groups, status) ==
    IF groups = {} THEN 0
    ELSE LET g == CHOOSE k \in groups : TRUE
         IN  SumCounts(stats[g], DOMAIN stats[g], status)
                + SumCells(stats, groups \ {g}, status)

\* the total count_suite gives over the root suites: 1 passing, 2 pending
TreeTotal(which) == SumSeq([k \in 1..Len(suites) |-> count_suite(nodes, suites[k])[which]])

Aggregated == group_stats # Nothing

\* C23: once the loop of render_html has run, the passing counts of the module
\* groups, those of the behavior categories and those of the (group, category)
\* cells each add up to the number of passing tests count_suite finds in the root
\* suites, and the pending counts likewise; every count belongs to a group, a
\* category or a cell that holds a test.
C23_AggregationCountsEachTestOnce ==
    Aggregated =>
        /\ \A which \in {1, 2} :
              LET status == IF which = 1 THEN "passing" ELSE "pending"
                  total == TreeTotal(which)
              IN  /\ SumCounts(group_stats[1], DOMAIN group_stats[1], status) = total
                  /\ SumCounts(category_stats[1], DOMAIN category_stats[1], status) = total
                  /\ SumCells(group_category_stats[1], DOMAIN group_category_stats[1],
                              status) = total
        /\ \A g \in DOMAIN group_stats[1] :
              group_stats[1][g].passing + group_stats[1][g].pending > 0
        /\ \A c \in DOMAIN category_stats[1] :
              category_stats[1][c].passing + category_stats[1][c].pending > 0

\* the loop has run over a tree of two module groups whose tests fall into two
\* categories, one group holding two passing tests, the other a pending one
C23_Witness ==
    /\ Aggregated
    /\ DOMAIN group_stats[1] = {"ConnectFourOnChain", "Protocol Core"}
    /\ DOMAIN category_stats[1] = {"Game & Tournament Logic", "Gas & Performance"}
    /\ group_stats[1]["ConnectFourOnChain"].passing = 2
    /\ group_stats[1]["Protocol Core"].pending = 1
    /\ TreeTotal(1) = 2
    /\ TreeTotal(2) = 1
====
